---- MODULE Spec2Model ----
(***************************************************************************)
(* A state-machine model of the text adventure's command core: the engine  *)
(* loop (game/engine.py), the command interpreter (game/commands.py), the  *)
(* combat, crafting and quest resolvers (game/combat.py, game/crafting.py, *)
(* game/quests.py) over the world built by game/world_builder.py.          *)
(*                                                                         *)
(* Text is modelled as a sequence of one-character strings so that         *)
(* lower-casing, equality and substring tests are computed, not assumed.   *)
(* random.randint / random.random / random.choice are nondeterministic     *)
(* choices over every value they can return.                               *)
(***************************************************************************)
EXTENDS Integers, Sequences, FiniteSets, TLC

(***************************************************************************)
(* Text literals used by the world tables and by the command vocabulary.   *)
(* n_: contains upper case, u_: contains "_", s_: plain (space as "_").    *)
(***************************************************************************)
n_Cave_Explorer == <<"C", "a", "v", "e", " ", "E", "x", "p", "l", "o", "r", "e", "r">>
n_Goblin_Hunter == <<"G", "o", "b", "l", "i", "n", " ", "H", "u", "n", "t", "e", "r">>
n_Health_Potion == <<"H", "e", "a", "l", "t", "h", " ", "P", "o", "t", "i", "o", "n">>
n_Herb_Collection == <<"H", "e", "r", "b", " ", "C", "o", "l", "l", "e", "c", "t", "i", "o", "n">>
n_Iron_Sword == <<"I", "r", "o", "n", " ", "S", "w", "o", "r", "d">>
n_Leather_Armor == <<"L", "e", "a", "t", "h", "e", "r", " ", "A", "r", "m", "o", "r">>
n_Lockpick == <<"L", "o", "c", "k", "p", "i", "c", "k">>
n_Magic_Scroll == <<"M", "a", "g", "i", "c", " ", "S", "c", "r", "o", "l", "l">>
n_Master_Craftsman == <<"M", "a", "s", "t", "e", "r", " ", "C", "r", "a", "f", "t", "s", "m", "a", "n">>
n_The_Lost_Ruby == <<"T", "h", "e", " ", "L", "o", "s", "t", " ", "R", "u", "b", "y">>
n_Torch == <<"T", "o", "r", "c", "h">>
s_armor == <<"a", "r", "m", "o", "r">>
s_bandit == <<"b", "a", "n", "d", "i", "t">>
s_blade == <<"b", "l", "a", "d", "e">>
s_chest == <<"c", "h", "e", "s", "t">>
s_cloth == <<"c", "l", "o", "t", "h">>
s_coin == <<"c", "o", "i", "n">>
s_craft == <<"c", "r", "a", "f", "t">>
s_essence == <<"e", "s", "s", "e", "n", "c", "e">>
s_fabric == <<"f", "a", "b", "r", "i", "c">>
s_fire == <<"f", "i", "r", "e">>
s_gem == <<"g", "e", "m">>
s_goblin == <<"g", "o", "b", "l", "i", "n">>
s_gold == <<"g", "o", "l", "d">>
s_gold_coin == <<"g", "o", "l", "d", " ", "c", "o", "i", "n">>
s_guard == <<"g", "u", "a", "r", "d">>
s_hammer == <<"h", "a", "m", "m", "e", "r">>
s_health == <<"h", "e", "a", "l", "t", "h">>
s_health_potion == <<"h", "e", "a", "l", "t", "h", " ", "p", "o", "t", "i", "o", "n">>
s_herb == <<"h", "e", "r", "b">>
s_hide == <<"h", "i", "d", "e">>
s_iron == <<"i", "r", "o", "n">>
s_iron_ore == <<"i", "r", "o", "n", " ", "o", "r", "e">>
s_iron_sword == <<"i", "r", "o", "n", " ", "s", "w", "o", "r", "d">>
s_key == <<"k", "e", "y">>
s_leather == <<"l", "e", "a", "t", "h", "e", "r">>
s_leather_armor == <<"l", "e", "a", "t", "h", "e", "r", " ", "a", "r", "m", "o", "r">>
s_light == <<"l", "i", "g", "h", "t">>
s_liquid == <<"l", "i", "q", "u", "i", "d">>
s_lock == <<"l", "o", "c", "k">>
s_lockpick == <<"l", "o", "c", "k", "p", "i", "c", "k">>
s_magic == <<"m", "a", "g", "i", "c">>
s_magic_essence == <<"m", "a", "g", "i", "c", " ", "e", "s", "s", "e", "n", "c", "e">>
s_magic_scroll == <<"m", "a", "g", "i", "c", " ", "s", "c", "r", "o", "l", "l">>
s_map == <<"m", "a", "p">>
s_material == <<"m", "a", "t", "e", "r", "i", "a", "l">>
s_merchant == <<"m", "e", "r", "c", "h", "a", "n", "t">>
s_metal == <<"m", "e", "t", "a", "l">>
s_money == <<"m", "o", "n", "e", "y">>
s_needle == <<"n", "e", "e", "d", "l", "e">>
s_old_map == <<"o", "l", "d", " ", "m", "a", "p">>
s_ore == <<"o", "r", "e">>
s_paper == <<"p", "a", "p", "e", "r">>
s_parchment == <<"p", "a", "r", "c", "h", "m", "e", "n", "t">>
s_plant == <<"p", "l", "a", "n", "t">>
s_potion == <<"p", "o", "t", "i", "o", "n">>
s_protection == <<"p", "r", "o", "t", "e", "c", "t", "i", "o", "n">>
s_red == <<"r", "e", "d">>
s_riches == <<"r", "i", "c", "h", "e", "s">>
s_ruby == <<"r", "u", "b", "y">>
s_ruby_gem == <<"r", "u", "b", "y", " ", "g", "e", "m">>
s_rune == <<"r", "u", "n", "e">>
s_rus == <<"r", "u", "s">>
s_rusty == <<"r", "u", "s", "t", "y">>
s_rusty_key == <<"r", "u", "s", "t", "y", " ", "k", "e", "y">>
s_scroll == <<"s", "c", "r", "o", "l", "l">>
s_sew == <<"s", "e", "w">>
s_skeleton == <<"s", "k", "e", "l", "e", "t", "o", "n">>
s_string == <<"s", "t", "r", "i", "n", "g">>
s_sword == <<"s", "w", "o", "r", "d">>
s_thread == <<"t", "h", "r", "e", "a", "d">>
s_tool == <<"t", "o", "o", "l">>
s_tor == <<"t", "o", "r">>
s_torch == <<"t", "o", "r", "c", "h">>
s_treasure == <<"t", "r", "e", "a", "s", "u", "r", "e">>
s_treasure_chest == <<"t", "r", "e", "a", "s", "u", "r", "e", " ", "c", "h", "e", "s", "t">>
s_water == <<"w", "a", "t", "e", "r">>
s_weapon == <<"w", "e", "a", "p", "o", "n">>
s_wizard == <<"w", "i", "z", "a", "r", "d">>
s_wood == <<"w", "o", "o", "d">>
u_cave_explored == <<"c", "a", "v", "e", "_", "e", "x", "p", "l", "o", "r", "e", "d">>
u_goblin_defeated == <<"g", "o", "b", "l", "i", "n", "_", "d", "e", "f", "e", "a", "t", "e", "d">>
u_iron_ore == <<"i", "r", "o", "n", "_", "o", "r", "e">>
u_iron_sword == <<"i", "r", "o", "n", "_", "s", "w", "o", "r", "d">>
u_magic_essence == <<"m", "a", "g", "i", "c", "_", "e", "s", "s", "e", "n", "c", "e">>

(***************************************************************************)
(* Text operations: str.lower(), "a in b" on strings, "x in list".         *)
(***************************************************************************)
UpperToLower ==
  [A |-> "a", B |-> "b", C |-> "c", D |-> "d", E |-> "e", F |-> "f", G |-> "g",
   H |-> "h", I |-> "i", J |-> "j", K |-> "k", L |-> "l", M |-> "m", N |-> "n",
   O |-> "o", P |-> "p", Q |-> "q", R |-> "r", S |-> "s", T |-> "t", U |-> "u",
   V |-> "v", W |-> "w", X |-> "x", Y |-> "y", Z |-> "z"]

Lower(s) ==
  [i \in 1..Len(s) |-> IF s[i] \in DOMAIN UpperToLower THEN UpperToLower[s[i]] ELSE s[i]]

\* Python's  a in b  for two strings: a occurs in b as a contiguous run.
IsSubstring(a, b) ==
  \E k \in 0..(Len(b) - Len(a)) : SubSeq(b, k + 1, k + Len(a)) = a

\* Python's  x in lst  for a list: some element equals x.
InList(x, lst) == \E k \in 1..Len(lst) : lst[k] = x

Range(lst) == {lst[k] : k \in 1..Len(lst)}

\* The number of positions of lst holding x.
Count(x, lst) == Cardinality({k \in 1..Len(lst) : lst[k] = x})

\* list.remove(x): drops the first occurrence of x (x is in lst at every use).
Remove(lst, x) ==
  LET k == CHOOSE i \in 1..Len(lst) : lst[i] = x /\ \A j \in 1..(i - 1) : lst[j] # x
  IN  SubSeq(lst, 1, k - 1) \o SubSeq(lst, k + 1, Len(lst))

RECURSIVE RemoveAll(_, _)
\* list.remove(x) for each x of xs in turn.
RemoveAll(lst, xs) ==
  IF xs = <<>> THEN lst ELSE RemoveAll(Remove(lst, Head(xs)), Tail(xs))

Max(a, b) == IF a >= b THEN a ELSE b
Min(a, b) == IF a <= b THEN a ELSE b

\* Optional[str] = None
None == "None"

(***************************************************************************)
(* The data models (game/models.py) with their defaults.                   *)
(***************************************************************************)
Item(name, item_type, value, damage, armor_value, healing_value, keywords, use_description) ==
  [name |-> name, item_type |-> item_type, value |-> value, damage |-> damage,
   armor_value |-> armor_value, healing_value |-> healing_value,
   is_takeable |-> TRUE, is_visible |-> TRUE,
   keywords |-> keywords, use_description |-> use_description]

\* A variant of the exit that leads to a room nobody built.
ExitAstray(destination) ==
  [destination |-> "nowhere", is_locked |-> FALSE, required_key |-> None,
   is_open |-> TRUE, required_level |-> 1, required_items |-> <<>>]

Exit(destination) ==
  [destination |-> destination, is_locked |-> FALSE, required_key |-> None,
   is_open |-> TRUE, required_level |-> 1, required_items |-> <<>>]

Directions ==
  {"north", "south", "east", "west", "up", "down",
   "northeast", "northwest", "southeast", "southwest"}

EquipmentSlots == <<"weapon", "armor", "helmet", "boots", "gloves", "ring", "amulet">>

(***************************************************************************)
(* The world of WorldBuilder.create_world and the recipe and quest tables  *)
(* the resolvers install (dict order = definition order).                  *)
(***************************************************************************)
WorldItems ==
  [
  rusty_key |-> Item(s_rusty_key, "key", 5, 0, 0, 0,
      <<s_key, s_rusty>>, FALSE),
  torch |-> Item(s_torch, "tool", 10, 0, 0, 0,
      <<s_light, s_fire>>, FALSE),
  sword |-> Item(s_sword, "weapon", 50, 12, 0, 0,
      <<s_weapon, s_blade>>, FALSE),
  gold_coin |-> Item(s_gold_coin, "treasure", 10, 0, 0, 0,
      <<s_coin, s_gold, s_money>>, FALSE),
  treasure_chest |-> Item(s_treasure_chest, "treasure", 1000, 0, 0, 0,
      <<s_chest, s_treasure, s_riches>>, FALSE),
  potion |-> Item(s_health_potion, "potion", 25, 0, 0, 25,
      <<s_potion, s_health, s_red>>, TRUE),
  map |-> Item(s_old_map, "tool", 15, 0, 0, 0,
      <<s_map, s_paper>>, FALSE),
  gem |-> Item(s_ruby_gem, "treasure", 100, 0, 0, 0,
      <<s_gem, s_ruby, s_red>>, FALSE),
  herb |-> Item(s_herb, "material", 2, 0, 0, 0,
      <<s_herb, s_plant, s_material>>, FALSE),
  iron_ore |-> Item(s_iron_ore, "material", 5, 0, 0, 0,
      <<s_ore, s_iron, s_metal, s_material>>, FALSE),
  wood |-> Item(s_wood, "material", 1, 0, 0, 0,
      <<s_wood, s_material>>, FALSE),
  leather |-> Item(s_leather, "material", 3, 0, 0, 0,
      <<s_leather, s_hide, s_material>>, FALSE),
  thread |-> Item(s_thread, "material", 1, 0, 0, 0,
      <<s_thread, s_string, s_material>>, FALSE),
  cloth |-> Item(s_cloth, "material", 1, 0, 0, 0,
      <<s_cloth, s_fabric, s_material>>, FALSE),
  parchment |-> Item(s_parchment, "material", 2, 0, 0, 0,
      <<s_parchment, s_paper, s_material>>, FALSE),
  magic_essence |-> Item(s_magic_essence, "material", 20, 0, 0, 0,
      <<s_essence, s_magic, s_material>>, FALSE),
  water |-> Item(s_water, "material", 1, 0, 0, 0,
      <<s_water, s_liquid, s_material>>, FALSE),
  iron_sword |-> Item(s_iron_sword, "weapon", 75, 18, 0, 0,
      <<s_sword, s_iron, s_weapon>>, FALSE),
  leather_armor |-> Item(s_leather_armor, "armor", 40, 0, 8, 0,
      <<s_armor, s_leather, s_protection>>, FALSE),
  lockpick |-> Item(s_lockpick, "tool", 15, 0, 0, 0,
      <<s_lockpick, s_tool, s_lock>>, FALSE),
  magic_scroll |-> Item(s_magic_scroll, "scroll", 50, 0, 0, 0,
      <<s_scroll, s_magic, s_rune>>, FALSE),
  hammer |-> Item(s_hammer, "tool", 8, 0, 0, 0,
      <<s_hammer, s_tool, s_craft>>, FALSE),
  needle |-> Item(s_needle, "tool", 3, 0, 0, 0,
      <<s_needle, s_tool, s_sew>>, FALSE)
  ]

WorldEnemies ==
  [
  goblin |-> [name |-> s_goblin, enemy_type |-> "goblin", health |-> 30, max_health |-> 30, damage |-> 8,
      armor |-> 2, experience_reward |-> 25, gold_reward |-> 10, current_room |-> "corridor",
      inventory |-> <<"herb">>, special_abilities |-> <<"poison">>],
  skeleton |-> [name |-> s_skeleton, enemy_type |-> "skeleton", health |-> 40, max_health |-> 40, damage |-> 10,
      armor |-> 3, experience_reward |-> 35, gold_reward |-> 15, current_room |-> "secret_passage",
      inventory |-> <<"iron_ore">>, special_abilities |-> <<"stun">>],
  bandit |-> [name |-> s_bandit, enemy_type |-> "bandit", health |-> 50, max_health |-> 50, damage |-> 12,
      armor |-> 5, experience_reward |-> 45, gold_reward |-> 25, current_room |-> "cave",
      inventory |-> <<"gold_coin", "leather">>, special_abilities |-> <<"heal">>]
  ]

WorldNpcs ==
  [
  guard |-> [name |-> s_guard, current_room |-> "guard_room", shop_items |-> <<>>,
      shop_prices |-> <<>>],
  merchant |-> [name |-> s_merchant, current_room |-> "market", shop_items |-> <<"torch", "potion", "map">>,
      shop_prices |-> [torch |-> 15, potion |-> 30, map |-> 20]],
  wizard |-> [name |-> s_wizard, current_room |-> "library", shop_items |-> <<>>,
      shop_prices |-> <<>>]
  ]

WorldRooms ==
  [
  entrance |-> [exits |->
      [north |-> Exit("guard_room"), east |-> Exit("market")],
      items |-> <<"torch", "map", "herb">>, npcs |-> <<>>, enemies |-> <<>>, is_safe_zone |-> TRUE],
  guard_room |-> [exits |->
      [south |-> Exit("entrance"), east |-> Exit("corridor")],
      items |-> <<"hammer">>, npcs |-> <<"guard">>, enemies |-> <<>>, is_safe_zone |-> TRUE],
  market |-> [exits |->
      [west |-> Exit("entrance"), north |-> Exit("library")],
      items |-> <<"gold_coin", "thread", "cloth">>, npcs |-> <<"merchant">>, enemies |-> <<>>, is_safe_zone |-> TRUE],
  library |-> [exits |->
      [south |-> Exit("market"), west |-> Exit("corridor")],
      items |-> <<"parchment", "magic_essence">>, npcs |-> <<"wizard">>, enemies |-> <<>>, is_safe_zone |-> TRUE],
  corridor |-> [exits |->
      [west |-> Exit("guard_room"), east |-> Exit("library"), north |-> Exit("treasure_room")],
      items |-> <<"iron_ore">>, npcs |-> <<>>, enemies |-> <<"goblin">>, is_safe_zone |-> FALSE],
  treasure_room |-> [exits |->
      [south |-> Exit("corridor"), east |-> Exit("secret_passage")],
      items |-> <<"treasure_chest", "gem">>, npcs |-> <<>>, enemies |-> <<>>, is_safe_zone |-> TRUE],
  secret_passage |-> [exits |->
      [west |-> Exit("treasure_room"), north |-> Exit("cave")],
      items |-> <<"rusty_key", "wood">>, npcs |-> <<>>, enemies |-> <<"skeleton">>, is_safe_zone |-> FALSE],
  cave |-> [exits |->
      [south |-> Exit("secret_passage"), down |-> Exit("deep_cavern")],
      items |-> <<"leather", "water">>, npcs |-> <<>>, enemies |-> <<"bandit">>, is_safe_zone |-> FALSE],
  deep_cavern |-> [exits |->
      [up |-> Exit("cave")],
      items |-> <<"sword", "potion", "needle">>, npcs |-> <<>>, enemies |-> <<>>, is_safe_zone |-> FALSE]
  ]

Recipes ==
  [
  health_potion |-> [name |-> n_Health_Potion, materials |-> <<<<s_herb, 2>>, <<s_water, 1>>>>,
      result_item |-> "health_potion", required_level |-> 1, required_tools |-> <<>>, crafting_time |-> 2],
  iron_sword |-> [name |-> n_Iron_Sword, materials |-> <<<<u_iron_ore, 3>>, <<s_wood, 1>>>>,
      result_item |-> "iron_sword", required_level |-> 3, required_tools |-> <<s_hammer>>, crafting_time |-> 10],
  leather_armor |-> [name |-> n_Leather_Armor, materials |-> <<<<s_leather, 4>>, <<s_thread, 2>>>>,
      result_item |-> "leather_armor", required_level |-> 2, required_tools |-> <<s_needle>>, crafting_time |-> 8],
  torch |-> [name |-> n_Torch, materials |-> <<<<s_wood, 1>>, <<s_cloth, 1>>>>,
      result_item |-> "torch", required_level |-> 1, required_tools |-> <<>>, crafting_time |-> 1],
  lockpick |-> [name |-> n_Lockpick, materials |-> <<<<u_iron_ore, 1>>>>,
      result_item |-> "lockpick", required_level |-> 2, required_tools |-> <<s_hammer>>, crafting_time |-> 3],
  magic_scroll |-> [name |-> n_Magic_Scroll, materials |-> <<<<s_parchment, 1>>, <<u_magic_essence, 1>>>>,
      result_item |-> "magic_scroll", required_level |-> 5, required_tools |-> <<>>, crafting_time |-> 5]
  ]

RecipeOrder == <<"health_potion", "iron_sword", "leather_armor", "torch", "lockpick", "magic_scroll">>

Quests ==
  [
  find_gem |-> [name |-> n_The_Lost_Ruby, quest_giver |-> "wizard", requirements |-> <<<<s_gem, 1>>>>,
      rewards |-> <<<<"gold_coin", 2>>>>, experience_reward |-> 50, gold_reward |-> 25, is_repeatable |-> FALSE],
  defeat_goblin |-> [name |-> n_Goblin_Hunter, quest_giver |-> "guard", requirements |-> <<<<u_goblin_defeated, 1>>>>,
      rewards |-> <<<<"sword", 1>>>>, experience_reward |-> 100, gold_reward |-> 50, is_repeatable |-> FALSE],
  collect_herbs |-> [name |-> n_Herb_Collection, quest_giver |-> "merchant", requirements |-> <<<<s_herb, 5>>>>,
      rewards |-> <<<<"health_potion", 2>>>>, experience_reward |-> 30, gold_reward |-> 15, is_repeatable |-> TRUE],
  explore_caves |-> [name |-> n_Cave_Explorer, quest_giver |-> "guard", requirements |-> <<<<u_cave_explored, 1>>>>,
      rewards |-> <<<<"torch", 1>>>>, experience_reward |-> 75, gold_reward |-> 30, is_repeatable |-> FALSE],
  craft_sword |-> [name |-> n_Master_Craftsman, quest_giver |-> "merchant", requirements |-> <<<<u_iron_sword, 1>>>>,
      rewards |-> <<<<"gold_coin", 3>>>>, experience_reward |-> 80, gold_reward |-> 40, is_repeatable |-> FALSE]
  ]

QuestOrder == <<"find_gem", "defeat_goblin", "collect_herbs", "explore_caves", "craft_sword">>

RoomIds == DOMAIN WorldRooms
EnemyIds == DOMAIN WorldEnemies
NpcIds == DOMAIN WorldNpcs
QuestIds == DOMAIN Quests
RecipeIds == DOMAIN Recipes

(***************************************************************************)
(* State.  player, rooms, enemies, items, quests and is_game_over are the  *)
(* mutable part of GameState; the npc/enemy residency lists, exits,        *)
(* recipes and every Item record are never written after construction and  *)
(* are read from the tables above.  items is the key set of                *)
(* GameState.items.  pc is the position of GameEngine._game_loop: "input"  *)
(* waits for a line, "check" is between _process_command and               *)
(* _check_quest_progress.  last is the line just dispatched and what the   *)
(* interpreter returned for it (locals of one loop iteration).  A status   *)
(* effect with duration 0 is a key absent from Player.status_effects.      *)
(***************************************************************************)
VARIABLES player, rooms, enemies, items, quests, is_game_over, pc, last

vars == <<player, rooms, enemies, items, quests, is_game_over, pc, last>>

GameState == <<player, rooms, enemies, items, quests, is_game_over>>

NoCommand == [verb |-> "", target |-> <<>>, result |-> "", item |-> None, effect |-> None]

\* str.replace(" ", "_")
Underscored(s) == [i \in 1..Len(s) |-> IF s[i] = " " THEN "_" ELSE s[i]]

RECURSIVE SumQuantities(_)
SumQuantities(materials) ==
  IF materials = <<>> THEN 0
  ELSE Head(materials)[2] * 5 + SumQuantities(Tail(materials))

\* CraftingSystem._calculate_item_value
CalculateItemValue(recipe) ==
  10 + SumQuantities(recipe.materials) + recipe.required_level * 10
     + recipe.crafting_time * 2

\* CraftingSystem._get_item_type_from_recipe
GetItemTypeFromRecipe(recipe) ==
  LET name == Lower(recipe.name)
  IN  IF IsSubstring(s_potion, name) THEN "potion"
      ELSE IF IsSubstring(s_sword, name) \/ IsSubstring(s_weapon, name) THEN "weapon"
      ELSE IF IsSubstring(s_armor, name) THEN "armor"
      ELSE IF IsSubstring(s_scroll, name) THEN "scroll"
      ELSE IF IsSubstring(s_key, name) \/ IsSubstring(s_lockpick, name) THEN "tool"
      ELSE "misc"

\* The Item record CraftingSystem._create_crafted_item builds for a recipe
\* whose result id is not yet a key of GameState.items.
CraftedItem(recipe) ==
  LET name == Lower(recipe.name)
      base == Item(recipe.name, GetItemTypeFromRecipe(recipe), CalculateItemValue(recipe),
                   0, 0, 0, <<Underscored(name)>>, FALSE)
  IN  IF IsSubstring(s_potion, name)
        THEN [base EXCEPT !.item_type = "potion", !.healing_value = 25]
      ELSE IF IsSubstring(s_sword, name)
        THEN [base EXCEPT !.item_type = "weapon", !.damage = 15]
      ELSE IF IsSubstring(s_armor, name)
        THEN [base EXCEPT !.item_type = "armor", !.armor_value = 10]
      ELSE IF IsSubstring(s_torch, name)
        THEN [base EXCEPT !.item_type = "tool", !.use_description = TRUE]
      ELSE base

\* Every id that can become a key of GameState.items.
AllItemIds == DOMAIN WorldItems \cup {Recipes[r].result_item : r \in RecipeIds}

\* Two items a saved game adds to the catalog: a sconce fixed to the wall
\* that answers to "torch", and a chart nobody has found yet that answers to
\* "map".
SavedItems ==
  [
  sconce |-> [Item(<<"i", "r", "o", "n", " ", "s", "c", "o", "n", "c", "e">>, "misc", 0, 0, 0, 0,
                   <<<<"s", "c", "o", "n", "c", "e">>, s_torch>>, FALSE)
                EXCEPT !.is_takeable = FALSE],
  chart |-> [Item(<<"h", "i", "d", "d", "e", "n", " ", "c", "h", "a", "r", "t">>, "misc", 5, 0, 0, 0,
                  <<<<"c", "h", "a", "r", "t">>, s_map>>, FALSE)
               EXCEPT !.is_visible = FALSE]
  ]

\* GameState.items[id]: the world's record, the saved game's, or the crafted
\* one.
ItemOf(id) ==
  IF id \in DOMAIN WorldItems THEN WorldItems[id]
  ELSE IF id \in DOMAIN SavedItems THEN SavedItems[id]
  ELSE CraftedItem(Recipes[CHOOSE r \in RecipeIds : Recipes[r].result_item = id])

(***************************************************************************)
(* The state after WorldBuilder.create_world, CommandParser.__init__ (the  *)
(* recipe and quest tables) and GameEngine.start_game (two starting        *)
(* recipes, the start room displayed and marked visited).                  *)
(***************************************************************************)
NewPlayer ==
  [health |-> 100, max_health |-> 100, inventory |-> <<>>,
   equipment |-> [s \in Range(EquipmentSlots) |-> None],
   current_room |-> "entrance", score |-> 0, moves |-> 0, is_alive |-> TRUE,
   level |-> 1, experience |-> 0, experience_to_next |-> 100, gold |-> 0,
   strength |-> 10, dexterity |-> 10, intelligence |-> 10, constitution |-> 10,
   status_effects |-> [poisoned |-> 0, stunned |-> 0],
   known_recipes |-> {"torch", "health_potion"},
   active_quests |-> <<>>, completed_quests |-> {}]

NewRooms ==
  [r \in RoomIds |->
     [items |-> WorldRooms[r].items, exits |-> WorldRooms[r].exits,
      enemies |-> WorldRooms[r].enemies, is_safe_zone |-> WorldRooms[r].is_safe_zone,
      is_visited |-> (r = "entrance")]]

Init ==
  /\ player = NewPlayer
  /\ rooms = NewRooms
  /\ enemies = [e \in EnemyIds |->
                  [health |-> WorldEnemies[e].health, is_alive |-> TRUE]]
  /\ items = DOMAIN WorldItems
  /\ quests = [q \in QuestIds |-> "not_started"]
  /\ is_game_over = FALSE
  /\ pc = "input"
  /\ last = NoCommand

(***************************************************************************)
(* GameEngine._game_loop reads a line only while the game is not over and  *)
(* the player is alive; _process_command hands it to the interpreter and   *)
(* then runs the victory check.                                            *)
(***************************************************************************)
\* A variant of the loop condition that reads on whatever became of the game.
ReadyRegardless == pc = "input"

Ready == pc = "input" /\ player.is_alive /\ ~is_game_over

\* A variant of the victory check that is content with a herb.
VictoryWithHerb(inventory) == InList("treasure_chest", inventory) \/ InList("herb", inventory)

\* GameEngine._check_victory_conditions on the state the command left.
CheckVictoryConditions(inventory) == InList("treasure_chest", inventory)

\* The interpreter returned a response: it is printed, the victory check runs.
\* effect is the special-ability line of a combat response, None without one.
\* A variant of the response that leaves out the victory check.
RespondUnchecked(verb, target, result, item, effect) ==
  /\ pc' = "check"
  /\ last' = [verb |-> verb, target |-> target, result |-> result, item |-> item,
              effect |-> effect]
  /\ is_game_over' = is_game_over

Respond(verb, target, result, item, effect) ==
  /\ pc' = "check"
  /\ last' = [verb |-> verb, target |-> target, result |-> result, item |-> item,
              effect |-> effect]
  /\ is_game_over' = (is_game_over \/ CheckVictoryConditions(player'.inventory))

Return(verb, target, result, item) == Respond(verb, target, result, item, None)

\* The interpreter raised: _process_command's except clause reports it and
\* the victory check is skipped.
Raise(verb, target) ==
  /\ pc' = "check"
  /\ last' = [verb |-> verb, target |-> target, result |-> "error", item |-> None,
              effect |-> None]
  /\ is_game_over' = is_game_over

\* A command that only reports.
Reply(verb, target, result, item) ==
  /\ UNCHANGED <<player, rooms, enemies, items, quests>>
  /\ Return(verb, target, result, item)

\* A variant of the item test that accepts a fragment of the name or of a
\* keyword.
MatchesFragment(target, item) ==
  \/ IsSubstring(target, Lower(item.name))
  \/ \E k \in 1..Len(item.keywords) : IsSubstring(target, item.keywords[k])

\* The interpreter's item test:  target_name in [item.name.lower()] + item.keywords
Matches(target, item) ==
  target = Lower(item.name) \/ InList(target, item.keywords)

\* The first position of lst whose element satisfies Test, 0 when there is none.
FirstIndex(lst, Test(_)) ==
  IF \E k \in 1..Len(lst) : Test(lst[k])
  THEN CHOOSE k \in 1..Len(lst) : Test(lst[k]) /\ \A j \in 1..(k - 1) : ~Test(lst[j])
  ELSE 0

\* The first inventory id whose item matches the target, None when there is none.
FindInInventory(target) ==
  LET Hit(id) == Matches(target, ItemOf(id))
      k == FirstIndex(player.inventory, Hit)
  IN  IF k = 0 THEN None ELSE player.inventory[k]

\* any(required_item in self.state.items[item_id].name.lower() for item_id in inventory)
HoldsNamed(fragment, inventory) ==
  \E k \in 1..Len(inventory) : IsSubstring(fragment, Lower(ItemOf(inventory[k]).name))

\* A variant of the gates that asks for the level before it looks at the lock.
CheckExitLevelFirst(exit, p) ==
  IF ~exit.is_open THEN "closed"
  ELSE IF p.level < exit.required_level THEN "need_level"
  ELSE IF exit.is_locked /\ exit.required_key # None
          /\ ~InList(exit.required_key, p.inventory) THEN "locked_need_key"
  ELSE IF exit.is_locked /\ exit.required_key = None THEN "locked"
  ELSE IF \E k \in 1..Len(exit.required_items) :
             ~HoldsNamed(exit.required_items[k], p.inventory) THEN "need_item"
  ELSE "moved"

\* The gates of _cmd_move on an exit of the room, in the order of the code:
\* the first refusal, "moved" when there is none.
CheckExit(exit, p) ==
  IF ~exit.is_open THEN "closed"
  ELSE IF exit.is_locked /\ exit.required_key # None
          /\ ~InList(exit.required_key, p.inventory) THEN "locked_need_key"
  ELSE IF exit.is_locked /\ exit.required_key = None THEN "locked"
  ELSE IF p.level < exit.required_level THEN "need_level"
  ELSE IF \E k \in 1..Len(exit.required_items) :
             ~HoldsNamed(exit.required_items[k], p.inventory) THEN "need_item"
  ELSE "moved"

\* A variant of the step into the next room that forgets the move counter.
ArriveUncounted(p, destination) == [p EXCEPT !.current_room = destination]

\* self.state.player.current_room = exit_obj.destination; moves += 1
Arrive(p, destination) == [p EXCEPT !.current_room = destination, !.moves = @ + 1]

\* The rooms _create_rooms gives a long_description.
LongDescribed == {"entrance"}

\* A variant of the arrival text that ignores the visited flag.
ShownUnvisited(room, room_id) ==
  IF room_id \in LongDescribed THEN "long_description" ELSE "description"

\* The text _cmd_move prints for the room it arrives in: description when
\* the room was visited, else long_description or description.
Shown(room, room_id) ==
  IF room.is_visited THEN "description"
  ELSE IF room_id \in LongDescribed THEN "long_description" ELSE "description"

\* A variant of the move that counts it before the gates are looked at.
CmdMoveCounted(direction) ==
  LET exits == rooms[player.current_room].exits
  IN  /\ Ready
      /\ IF direction \notin DOMAIN exits
           THEN /\ player' = [player EXCEPT !.moves = @ + 1]
                /\ UNCHANGED <<rooms, enemies, items, quests>>
                /\ Return(direction, <<>>, "cant_go", None)
         ELSE \E gate \in {CheckExit(exits[direction], player)} :
           IF gate # "moved"
             THEN /\ player' = [player EXCEPT !.moves = @ + 1]
                  /\ UNCHANGED <<rooms, enemies, items, quests>>
                  /\ Return(direction, <<>>, gate, None)
           ELSE /\ player' = Arrive(player, exits[direction].destination)
                /\ rooms' = [rooms EXCEPT ![exits[direction].destination].is_visited = TRUE]
                /\ UNCHANGED <<enemies, items, quests>>
                /\ Respond(direction, <<>>, "moved", None,
                           Shown(rooms[exits[direction].destination],
                                 exits[direction].destination))

\* CommandParser._cmd_move
CmdMove(direction) ==
  LET exits == rooms[player.current_room].exits
  IN  /\ Ready
      /\ IF direction \notin DOMAIN exits
           THEN Reply(direction, <<>>, "cant_go", None)
         ELSE \E gate \in {CheckExit(exits[direction], player)} :
           IF gate # "moved"
             THEN Reply(direction, <<>>, gate, None)
           ELSE /\ player' = Arrive(player, exits[direction].destination)
                /\ rooms' = [rooms EXCEPT ![exits[direction].destination].is_visited = TRUE]
                /\ UNCHANGED <<enemies, items, quests>>
                /\ Respond(direction, <<>>, "moved", None,
                           Shown(rooms[exits[direction].destination],
                                 exits[direction].destination))

\* A variant of take that leaves the item in the room.
LeftInRoom(room_items, item_id) == room_items

\* current_room.items.remove(item_id) of _cmd_take
TakenFrom(room_items, item_id) == Remove(room_items, item_id)

\* A variant of take that looks only at the items that are takeable and
\* visible.
CmdTakeEligible(target) ==
  LET here == player.current_room
      Hit(id) == /\ id \in items /\ Matches(target, ItemOf(id))
                 /\ ItemOf(id).is_takeable /\ ItemOf(id).is_visible
      k == FirstIndex(rooms[here].items, Hit)
      id == rooms[here].items[k]
  IN  /\ Ready
      /\ IF target = <<>> THEN Reply("take", target, "what", None)
         ELSE IF k = 0 THEN Reply("take", target, "not_here", None)
         ELSE /\ rooms' = [rooms EXCEPT ![here].items = TakenFrom(@, id)]
              /\ player' = [player EXCEPT !.inventory = Append(@, id),
                                          !.score = @ + ItemOf(id).value]
              /\ UNCHANGED <<enemies, items, quests>>
              /\ Return("take", target, "taken", id)

\* CommandParser._cmd_take
CmdTake(target) ==
  LET here == player.current_room
      Hit(id) == id \in items /\ Matches(target, ItemOf(id))
      k == FirstIndex(rooms[here].items, Hit)
      id == rooms[here].items[k]
  IN  /\ Ready
      /\ IF target = <<>> THEN Reply("take", target, "what", None)
         ELSE IF k = 0 THEN Reply("take", target, "not_here", None)
         ELSE IF ~ItemOf(id).is_takeable THEN Reply("take", target, "cant_take", id)
         ELSE IF ~ItemOf(id).is_visible THEN Reply("take", target, "not_visible", id)
         ELSE /\ rooms' = [rooms EXCEPT ![here].items = TakenFrom(@, id)]
              /\ player' = [player EXCEPT !.inventory = Append(@, id),
                                          !.score = @ + ItemOf(id).value]
              /\ UNCHANGED <<enemies, items, quests>>
              /\ Return("take", target, "taken", id)

\* CommandParser._cmd_drop
CmdDrop(target) ==
  LET here == player.current_room
      id == FindInInventory(target)
  IN  /\ Ready
      /\ IF target = <<>> THEN Reply("drop", target, "what", None)
         ELSE IF id = None THEN Reply("drop", target, "dont_have", None)
         ELSE /\ player' = [player EXCEPT !.inventory = Remove(@, id)]
              /\ rooms' = [rooms EXCEPT ![here].items = Append(@, id)]
              /\ UNCHANGED <<enemies, items, quests>>
              /\ Return("drop", target, "dropped", id)

\* CommandParser._cmd_use: the item's use text or "nothing happens".
CmdUse(target) ==
  LET id == FindInInventory(target)
  IN  /\ Ready
      /\ IF target = <<>> THEN Reply("use", target, "what", None)
         ELSE IF id = None THEN Reply("use", target, "dont_have", None)
         ELSE Reply("use", target, "used", id)

\* A variant of equip that leaves the item in the inventory.
KeptInPack(inventory, item_id) == inventory

\* self.state.player.inventory.remove(item_id) of _cmd_equip
Unpacked(inventory, item_id) == Remove(inventory, item_id)

\* CommandParser._cmd_equip
CmdEquip(target) ==
  LET id == FindInInventory(target)
      item == ItemOf(id)
      slot == IF item.item_type = "weapon" THEN "weapon" ELSE "armor"
      current_item_id == player.equipment[slot]
      unequipped == IF current_item_id # None
                    THEN Append(player.inventory, current_item_id)
                    ELSE player.inventory
  IN  /\ Ready
      /\ IF target = <<>> THEN Reply("equip", target, "what", None)
         ELSE IF id = None THEN Reply("equip", target, "dont_have", None)
         ELSE IF item.item_type \notin {"weapon", "armor"}
           THEN Reply("equip", target, "cant_equip", id)
         ELSE /\ player' = [player EXCEPT !.equipment[slot] = id,
                                          !.inventory = Unpacked(unequipped, id)]
              /\ UNCHANGED <<rooms, enemies, items, quests>>
              /\ Return("equip", target, "equipped", id)

\* A variant of unequip that leaves the id in the slot as well.
UnequippedKeeping(p, slot_name) ==
  [p EXCEPT !.inventory = Append(@, p.equipment[slot_name])]

\* inventory.append(current_item_id); setattr(equipment, slot_name, None)
Unequipped(p, slot_name) ==
  [p EXCEPT !.inventory = Append(@, p.equipment[slot_name]),
            !.equipment[slot_name] = None]

\* CommandParser._cmd_unequip: the argument is a slot name (args[0].lower()).
CmdUnequip(slot_name) ==
  /\ Ready
  /\ IF slot_name = "" THEN Reply("unequip", <<>>, "what", None)
     ELSE IF ~InList(slot_name, EquipmentSlots)
       THEN Reply("unequip", <<slot_name>>, "invalid_slot", None)
     ELSE IF player.equipment[slot_name] = None
       THEN Reply("unequip", <<slot_name>>, "nothing_equipped", None)
     ELSE /\ player' = Unequipped(player, slot_name)
          /\ UNCHANGED <<rooms, enemies, items, quests>>
          /\ Return("unequip", <<slot_name>>, "unequipped", player.equipment[slot_name])

(***************************************************************************)
(* Combat (game/combat.py).                                                *)
(***************************************************************************)
\* random.randint(-2, 2)
Offsets == -2..2

\* A variant of the penalty drawn from 1 to 10.
FleePenaltiesWide == 1..10

\* random.randint(1, 5): the penalty of a failed flee
FleePenalties == 1..5

\* A variant of the formula without the floor after the random offset.
CalculateDamageUnfloored(attack_damage, defense, offset) ==
  Max(1, attack_damage - defense) + offset

\* CombatSystem._calculate_damage with its random offset made explicit
CalculateDamage(attack_damage, defense, offset) ==
  Max(1, Max(1, attack_damage - defense) + offset)

\* The armor value of one slot's item (0 for an empty slot or an unknown id).
SlotArmor(p, slot) ==
  IF p.equipment[slot] # None /\ p.equipment[slot] \in items
  THEN ItemOf(p.equipment[slot]).armor_value ELSE 0

\* A variant of the armor total that forgets the armor slot.
GetPlayerArmorBare(p) ==
  SlotArmor(p, "helmet") + SlotArmor(p, "boots") + SlotArmor(p, "gloves")

\* CombatSystem._get_player_armor
GetPlayerArmor(p) ==
  SlotArmor(p, "armor") + SlotArmor(p, "helmet") + SlotArmor(p, "boots")
    + SlotArmor(p, "gloves")

\* CombatSystem._get_weapon_damage
GetWeaponDamage(p) ==
  IF p.equipment.weapon # None /\ p.equipment.weapon \in items
  THEN ItemOf(p.equipment.weapon).damage ELSE 0

\* A variant of the level-up that leaves the experience as it was.
LevelUpKeeping(p) ==
  [p EXCEPT !.level = @ + 1,
            !.experience_to_next = (3 * @) \div 2,
            !.max_health = @ + 10,
            !.health = p.max_health + 10,
            !.strength = @ + 1, !.dexterity = @ + 1,
            !.intelligence = @ + 1, !.constitution = @ + 1]

\* CombatSystem._level_up;  int(x * 1.5) = (3 * x) \div 2 for x >= 0
LevelUp(p) ==
  [p EXCEPT !.level = @ + 1,
            !.experience = @ - p.experience_to_next,
            !.experience_to_next = (3 * @) \div 2,
            !.max_health = @ + 10,
            !.health = p.max_health + 10,
            !.strength = @ + 1, !.dexterity = @ + 1,
            !.intelligence = @ + 1, !.constitution = @ + 1]

\* What the 30% draw and random.choice can produce for an enemy's turn.
SpecialChoices(e) == {None} \cup Range(WorldEnemies[e].special_abilities)

\* A variant of the heal ability without the cap.
HealUncapped(enemy, max_health) ==
  [enemy EXCEPT !.health = @ + max_health \div 4]

\* The heal ability: enemy.health = min(enemy.max_health, enemy.health + heal_amount)
Heal(enemy, max_health) ==
  [enemy EXCEPT !.health = Min(max_health, @ + max_health \div 4)]

\* A variant of the player's defeat that leaves the health where the blow
\* put it.
FallUnclamped(p) == [p EXCEPT !.is_alive = FALSE]

\* The defeat of the player in _enemy_turn
Fall(p) == [p EXCEPT !.health = 0, !.is_alive = FALSE]

\* A variant of an enemy's defeat that forgets the is_alive flag.
DefeatUnmarked(enemy) == [enemy EXCEPT !.health = 0]

\* The defeat of an enemy in attack
Defeat(enemy) == [enemy EXCEPT !.health = 0, !.is_alive = FALSE]

\* A variant of the loot drop that leaves the enemy itself in the room.
DropCarcass(room_items, e) == Append(room_items, e)

\* current_room.items.extend(enemy.inventory)
DropLoot(room_items, e) == room_items \o WorldEnemies[e].inventory

\* A variant of the special abilities whose heal mends the player as well.
UseEnemySpecialAbilityMending(st, e, ability) ==
  IF ability = "poison"
    THEN [st EXCEPT !.player.status_effects.poisoned = 3]
  ELSE IF ability = "stun"
    THEN [st EXCEPT !.player.status_effects.stunned = 1]
  ELSE IF ability = "heal"
    THEN [st EXCEPT !.enemies[e] = Heal(@, WorldEnemies[e].max_health),
                    !.player.health = st.player.max_health]
  ELSE st

\* CombatSystem._use_enemy_special_ability for the drawn ability
UseEnemySpecialAbility(st, e, ability) ==
  IF ability = "poison"
    THEN [st EXCEPT !.player.status_effects.poisoned = 3]
  ELSE IF ability = "stun"
    THEN [st EXCEPT !.player.status_effects.stunned = 1]
  ELSE IF ability = "heal"
    THEN [st EXCEPT !.enemies[e] = Heal(@, WorldEnemies[e].max_health)]
  ELSE st

\* A variant of the enemy's turn that strikes before and after the defeat
\* test.
EnemyTurnTwice(st, e, offset, ability) ==
  LET enemy_damage == CalculateDamage(WorldEnemies[e].damage, GetPlayerArmor(st.player), offset)
      hit == [st EXCEPT !.player.health = @ - enemy_damage]
      again == [hit EXCEPT !.player.health = @ - enemy_damage]
  IN  IF hit.player.health <= 0
        THEN [hit EXCEPT !.player = Fall(@)]
      ELSE IF again.player.health <= 0
        THEN [again EXCEPT !.player = Fall(@)]
      ELSE UseEnemySpecialAbility(again, e, ability)

\* CombatSystem._enemy_turn on st = [player, enemies], for enemy e.
EnemyTurn(st, e, offset, ability) ==
  LET enemy_damage == CalculateDamage(WorldEnemies[e].damage, GetPlayerArmor(st.player), offset)
      hit == [st EXCEPT !.player.health = @ - enemy_damage]
  IN  IF hit.player.health <= 0
        THEN [hit EXCEPT !.player = Fall(@)]
      ELSE UseEnemySpecialAbility(hit, e, ability)

\* The special-ability line of the response: the drawn ability, when the
\* player survived the blow.
EffectOf(st, ability) == IF st.player.is_alive THEN ability ELSE None

\* The first alive enemy of the player's room, None when there is none.
\* A variant of the fallback that takes the first enemy listed, alive or not.
FirstEnemy ==
  LET lst == rooms[player.current_room].enemies
  IN  IF lst = <<>> THEN None ELSE lst[1]

\* The fallback of CombatSystem.attack: the first alive enemy of the room's
\* list, None when there is none.
FirstAliveEnemy ==
  LET lst == rooms[player.current_room].enemies
      Alive(e) == enemies[e].is_alive
      k == FirstIndex(lst, Alive)
  IN  IF k = 0 THEN None ELSE lst[k]

\* A variant of the selection that does not ask whether the enemy is alive.
AttackTargetAny(target_name) ==
  LET lst == rooms[player.current_room].enemies
      Named(e) == IsSubstring(Lower(target_name), Lower(WorldEnemies[e].name))
      k == FirstIndex(lst, Named)
  IN  IF k # 0 THEN lst[k] ELSE FirstAliveEnemy

\* The enemy CombatSystem.attack selects: the first alive one whose name
\* contains the target text, else the first alive one.
AttackTarget(target_name) ==
  LET lst == rooms[player.current_room].enemies
      Named(e) == /\ enemies[e].is_alive
                  /\ IsSubstring(Lower(target_name), Lower(WorldEnemies[e].name))
      k == FirstIndex(lst, Named)
  IN  IF k # 0 THEN lst[k] ELSE FirstAliveEnemy

\* A variant of the kill branch that levels up as long as the experience
\* reaches the threshold.
RECURSIVE LevelUpWhile(_)
LevelUpWhile(p) ==
  IF p.experience >= p.experience_to_next THEN LevelUpWhile(LevelUp(p)) ELSE p

RewardedLooping(p, e) ==
  LevelUpWhile([p EXCEPT !.experience = @ + WorldEnemies[e].experience_reward,
                         !.gold = @ + WorldEnemies[e].gold_reward])

\* The kill branch of CombatSystem.attack: rewards, one level-up check.
Rewarded(p, e) ==
  LET q == [p EXCEPT !.experience = @ + WorldEnemies[e].experience_reward,
                     !.gold = @ + WorldEnemies[e].gold_reward]
  IN  IF q.experience >= q.experience_to_next THEN LevelUp(q) ELSE q

\* CommandParser._cmd_attack / CombatSystem.attack.  (\E x \in {v} binds x to
\* the value v once.)
CmdAttack(target_name) ==
  /\ Ready
  /\ \E e \in {AttackTarget(target_name)} :
       IF e = None THEN Reply("attack", target_name, "no_enemies", None)
       ELSE \E total_damage \in {GetWeaponDamage(player) + Max(1, player.strength \div 3)} :
            \E offset \in Offsets :
              LET here == player.current_room
                  actual_damage == CalculateDamage(total_damage, WorldEnemies[e].armor, offset)
                  health == enemies[e].health - actual_damage
              IN  IF health <= 0
                    THEN /\ enemies' = [enemies EXCEPT ![e] = Defeat([enemies[e] EXCEPT !.health = health])]
                         /\ player' = Rewarded(player, e)
                         /\ rooms' = [rooms EXCEPT ![here].items = DropLoot(@, e)]
                         /\ UNCHANGED <<items, quests>>
                         /\ Return("attack", target_name, "defeated", e)
                  ELSE \E counter \in Offsets, ability \in SpecialChoices(e) :
                       \E st \in {EnemyTurn([player |-> player,
                                              enemies |-> [enemies EXCEPT ![e].health = health]],
                                             e, counter, ability)} :
                         /\ player' = st.player
                         /\ enemies' = st.enemies
                         /\ UNCHANGED <<rooms, items, quests>>
                         /\ Respond("attack", target_name, "countered", e,
                                    EffectOf(st, ability))

\* CommandParser._cmd_flee / CombatSystem.flee.  random.random() < flee_chance
\* can succeed when the chance is positive and can fail always (chance <= 0.8).
CmdFlee ==
  /\ Ready
  /\ \E e \in {FirstAliveEnemy} :
       IF e = None THEN Reply("flee", <<>>, "no_enemies", None)
       ELSE \/ /\ player.dexterity > 0
               /\ Reply("flee", <<>>, "fled", None)
            \/ \E damage \in FleePenalties, counter \in Offsets,
                  ability \in SpecialChoices(e) :
                \E st \in {EnemyTurn([player |-> [player EXCEPT !.health = @ - damage],
                                       enemies |-> enemies],
                                      e, counter, ability)} :
                  /\ player' = st.player
                  /\ enemies' = st.enemies
                  /\ UNCHANGED <<rooms, items, quests>>
                  /\ Respond("flee", <<>>, "flee_failed", e, EffectOf(st, ability))

(***************************************************************************)
(* Trading and examining (game/commands.py).                               *)
(***************************************************************************)
\* The merchant lookup shared by shop, buy and sell: the first npc of the
\* room whose lower-cased name contains "merchant", None when there is none.
FindMerchant ==
  LET lst == WorldRooms[player.current_room].npcs
      IsMerchant(n) == n \in NpcIds /\ IsSubstring(s_merchant, Lower(WorldNpcs[n].name))
      k == FirstIndex(lst, IsMerchant)
  IN  IF k = 0 THEN None ELSE lst[k]

\* A variant of the price that ignores the merchant's own price list.
PriceOfValue(merchant, id) == ItemOf(id).value

\* merchant.shop_prices.get(item_id, item.value)
PriceOf(merchant, id) ==
  IF id \in DOMAIN WorldNpcs[merchant].shop_prices
  THEN WorldNpcs[merchant].shop_prices[id] ELSE ItemOf(id).value

\* A variant of buy that hands the item over although the gold is short.
BuyOnCredit(target) ==
  LET merchant == FindMerchant
      Hit(id) == Matches(target, ItemOf(id))
      k == FirstIndex(WorldNpcs[merchant].shop_items, Hit)
      id == WorldNpcs[merchant].shop_items[k]
      price == PriceOf(merchant, id)
  IN  /\ Ready
      /\ IF target = <<>> THEN Reply("buy", target, "what", None)
         ELSE IF merchant = None THEN Reply("buy", target, "no_merchant", None)
         ELSE IF k = 0 THEN Reply("buy", target, "not_sold", None)
         ELSE /\ player' = [player EXCEPT !.gold = Max(0, @ - price),
                                          !.inventory = Append(@, id)]
              /\ UNCHANGED <<rooms, enemies, items, quests>>
              /\ Return("buy", target,
                        IF player.gold < price THEN "not_enough_gold" ELSE "bought", id)

\* CommandParser._cmd_buy
CmdBuy(target) ==
  LET merchant == FindMerchant
      Hit(id) == Matches(target, ItemOf(id))
      k == FirstIndex(WorldNpcs[merchant].shop_items, Hit)
      id == WorldNpcs[merchant].shop_items[k]
      price == PriceOf(merchant, id)
  IN  /\ Ready
      /\ IF target = <<>> THEN Reply("buy", target, "what", None)
         ELSE IF merchant = None THEN Reply("buy", target, "no_merchant", None)
         ELSE IF k = 0 THEN Reply("buy", target, "not_sold", None)
         ELSE IF player.gold < price THEN Reply("buy", target, "not_enough_gold", id)
         ELSE /\ player' = [player EXCEPT !.gold = @ - price,
                                          !.inventory = Append(@, id)]
              /\ UNCHANGED <<rooms, enemies, items, quests>>
              /\ Return("buy", target, "bought", id)

\* CommandParser._cmd_sell
CmdSell(target) ==
  LET merchant == FindMerchant
      id == FindInInventory(target)
  IN  /\ Ready
      /\ IF target = <<>> THEN Reply("sell", target, "what", None)
         ELSE IF merchant = None THEN Reply("sell", target, "no_merchant", None)
         ELSE IF id = None THEN Reply("sell", target, "dont_have", None)
         ELSE /\ player' = [player EXCEPT !.gold = @ + ItemOf(id).value \div 2,
                                          !.inventory = Remove(@, id)]
              /\ UNCHANGED <<rooms, enemies, items, quests>>
              /\ Return("sell", target, "sold", id)

(***************************************************************************)
(* Crafting (game/crafting.py).                                            *)
(***************************************************************************)
\* item_name.lower() in item.name.lower(), for an inventory id
NamedLike(fragment, id) ==
  id \in items /\ IsSubstring(Lower(fragment), Lower(ItemOf(id).name))

\* CraftingSystem._player_has_item
PlayerHasItem(inventory, item_name) ==
  \E k \in 1..Len(inventory) : NamedLike(item_name, inventory[k])

\* CraftingSystem._player_has_material: HOW MANY the player holds.
PlayerHasMaterial(inventory, material_name, quantity) ==
  Cardinality({k \in 1..Len(inventory) : NamedLike(material_name, inventory[k])})

\* Python's truth value of an int
Truthy(n) == n # 0

\* CraftingSystem._can_craft_recipe
CanCraftRecipe(p, r) ==
  /\ ~(p.level < Recipes[r].required_level)
  /\ r \in p.known_recipes
  /\ \A t \in 1..Len(Recipes[r].required_tools) :
        PlayerHasItem(p.inventory, Recipes[r].required_tools[t])
  /\ \A m \in 1..Len(Recipes[r].materials) :
        Truthy(PlayerHasMaterial(p.inventory, Recipes[r].materials[m][1],
                                 Recipes[r].materials[m][2]))

\* The ids of the first `quantity` inventory entries named like the fragment.
RECURSIVE ItemsToRemove(_, _, _)
ItemsToRemove(inventory, fragment, quantity) ==
  IF inventory = <<>> \/ quantity <= 0 THEN <<>>
  ELSE IF NamedLike(fragment, Head(inventory))
    THEN <<Head(inventory)>> \o ItemsToRemove(Tail(inventory), fragment, quantity - 1)
  ELSE ItemsToRemove(Tail(inventory), fragment, quantity)

\* A variant of the consuming loop that does not stop at the count.
ConsumeEvery(inventory, material_name, quantity) ==
  SelectSeq(inventory, LAMBDA id : ~NamedLike(material_name, id))

\* CraftingSystem._consume_material (QuestSystem._consume_quest_items is the
\* same code)
ConsumeMaterial(inventory, material_name, quantity) ==
  RemoveAll(inventory, ItemsToRemove(inventory, material_name, quantity))

\* The consuming loop of craft_item / _complete_quest over (name, count) pairs.
RECURSIVE ConsumeAll(_, _)
ConsumeAll(inventory, pairs) ==
  IF pairs = <<>> THEN inventory
  ELSE ConsumeAll(ConsumeMaterial(inventory, Head(pairs)[1], Head(pairs)[2]), Tail(pairs))

\* The recipe craft_item selects: the first whose lower-cased name contains
\* the text, None when there is none.
FindRecipe(recipe_name) ==
  LET Hit(r) == IsSubstring(Lower(recipe_name), Lower(Recipes[r].name))
      k == FirstIndex(RecipeOrder, Hit)
  IN  IF k = 0 THEN None ELSE RecipeOrder[k]

\* CommandParser._cmd_craft / CraftingSystem.craft_item.  Once the check
\* passes the materials are consumed and _create_crafted_item registers the
\* result; the append then reads crafted_item.id, an attribute Item does not
\* have, and the AttributeError leaves the interpreter.
CmdCraft(recipe_name) ==
  LET r == FindRecipe(recipe_name)
  IN  /\ Ready
      /\ IF recipe_name = <<>> THEN Reply("craft", recipe_name, "what", None)
         ELSE IF r = None THEN Reply("craft", recipe_name, "recipe_not_found", None)
         ELSE IF ~CanCraftRecipe(player, r)
           THEN IF r \notin player.known_recipes
                  THEN Reply("craft", recipe_name, "not_known", r)
                ELSE IF player.level < Recipes[r].required_level
                  THEN Reply("craft", recipe_name, "level_too_low", r)
                ELSE Reply("craft", recipe_name, "missing_materials", r)
         ELSE /\ player' = [player EXCEPT
                              !.inventory = ConsumeAll(@, Recipes[r].materials)]
              /\ items' = items \cup {Recipes[r].result_item}
              /\ UNCHANGED <<rooms, enemies, quests>>
              /\ Raise("craft", recipe_name)

\* A variant of learn that does not ask whether the recipe is known.
CmdLearnAgain(recipe_id) ==
  /\ Ready
  /\ IF recipe_id = "" THEN Reply("learn", <<>>, "what", None)
     ELSE IF recipe_id \notin RecipeIds
       THEN Reply("learn", <<recipe_id>>, "recipe_not_found", None)
     ELSE /\ player' = [player EXCEPT !.known_recipes = @ \cup {recipe_id}]
          /\ UNCHANGED <<rooms, enemies, items, quests>>
          /\ Return("learn", <<recipe_id>>, "learned", recipe_id)

\* CommandParser._cmd_learn_recipe / CraftingSystem.learn_recipe
CmdLearn(recipe_id) ==
  /\ Ready
  /\ IF recipe_id = "" THEN Reply("learn", <<>>, "what", None)
     ELSE IF recipe_id \notin RecipeIds
       THEN Reply("learn", <<recipe_id>>, "recipe_not_found", None)
     ELSE IF recipe_id \in player.known_recipes
       THEN Reply("learn", <<recipe_id>>, "already_known", recipe_id)
     ELSE /\ player' = [player EXCEPT !.known_recipes = @ \cup {recipe_id}]
          /\ UNCHANGED <<rooms, enemies, items, quests>>
          /\ Return("learn", <<recipe_id>>, "learned", recipe_id)

(***************************************************************************)
(* Quests (game/quests.py).  st is the part of the state a quest check     *)
(* writes: [player, quests].                                               *)
(***************************************************************************)
\* QuestSystem._check_requirement
CheckRequirement(p, requirement, count) ==
  IF requirement = u_goblin_defeated
    THEN \E e \in EnemyIds : WorldEnemies[e].enemy_type = "goblin" /\ ~enemies[e].is_alive
  ELSE IF requirement = u_cave_explored
    THEN rooms["deep_cavern"].is_visited
  ELSE Cardinality({k \in 1..Len(p.inventory) : NamedLike(requirement, p.inventory[k])})
         >= count

\* QuestSystem._is_quest_complete
IsQuestComplete(p, q) ==
  \A k \in 1..Len(Quests[q].requirements) :
     CheckRequirement(p, Quests[q].requirements[k][1], Quests[q].requirements[k][2])

\* The reward loop of _complete_quest: count copies of every reward id that
\* is a key of GameState.items.
RECURSIVE GiveRewards(_, _)
GiveRewards(inventory, rewards) ==
  IF rewards = <<>> THEN inventory
  ELSE LET item_id == Head(rewards)[1]
           count == Head(rewards)[2]
           copies == IF item_id \in items THEN [i \in 1..count |-> item_id] ELSE <<>>
       IN  GiveRewards(inventory \o copies, Tail(rewards))

\* The requirements _complete_quest consumes: all but the two event names.
ItemRequirements(q) ==
  SelectSeq(Quests[q].requirements,
            LAMBDA r : r[1] # u_goblin_defeated /\ r[1] # u_cave_explored)

\* QuestSystem._complete_quest
CompleteQuest(st, q) ==
  [player |-> [st.player EXCEPT
                 !.active_quests = Remove(@, q),
                 !.completed_quests = @ \cup {q},
                 !.experience = @ + Quests[q].experience_reward,
                 !.gold = @ + Quests[q].gold_reward,
                 !.inventory = ConsumeAll(GiveRewards(@, Quests[q].rewards),
                                          ItemRequirements(q))],
   quests |-> [st.quests EXCEPT ![q] = "completed"]]

RECURSIVE CompleteQuests(_, _)
CompleteQuests(st, completed_quests) ==
  IF completed_quests = <<>> THEN st
  ELSE CompleteQuests(CompleteQuest(st, Head(completed_quests)), Tail(completed_quests))

\* QuestSystem.check_quest_progress: the active quests that are complete on
\* entry are completed in list order.
CheckQuestProgress(st) ==
  CompleteQuests(st, SelectSeq(st.player.active_quests,
                               LAMBDA q : IsQuestComplete(st.player, q)))

\* A variant of _can_accept_quest that takes a completed quest once more.
CanAcceptQuestAgain(q) ==
  /\ ~InList(q, player.active_quests)
  /\ Quests[q].quest_giver \in NpcIds
  /\ WorldNpcs[Quests[q].quest_giver].current_room = player.current_room

\* A variant of _can_accept_quest that does not look for the quest giver.
CanAcceptQuestAnywhere(q) ==
  /\ ~InList(q, player.active_quests)
  /\ ~(q \in player.completed_quests /\ ~Quests[q].is_repeatable)

\* QuestSystem._can_accept_quest
CanAcceptQuest(q) ==
  /\ ~InList(q, player.active_quests)
  /\ ~(q \in player.completed_quests /\ ~Quests[q].is_repeatable)
  /\ Quests[q].quest_giver \in NpcIds
  /\ WorldNpcs[Quests[q].quest_giver].current_room = player.current_room

\* The quest accept_quest selects: the first whose lower-cased name contains
\* the text, None when there is none.
FindQuest(quest_name) ==
  LET Hit(q) == IsSubstring(Lower(quest_name), Lower(Quests[q].name))
      k == FirstIndex(QuestOrder, Hit)
  IN  IF k = 0 THEN None ELSE QuestOrder[k]

\* CommandParser._cmd_accept_quest / QuestSystem.accept_quest
CmdAccept(quest_name) ==
  LET q == FindQuest(quest_name)
  IN  /\ Ready
      /\ IF quest_name = <<>> THEN Reply("accept", quest_name, "what", None)
         ELSE IF q = None THEN Reply("accept", quest_name, "quest_not_found", None)
         ELSE IF ~CanAcceptQuest(q)
           THEN IF InList(q, player.active_quests)
                  THEN Reply("accept", quest_name, "already_accepted", q)
                ELSE IF q \in player.completed_quests /\ ~Quests[q].is_repeatable
                  THEN Reply("accept", quest_name, "already_completed", q)
                ELSE Reply("accept", quest_name, "cannot_accept", q)
         ELSE /\ player' = [player EXCEPT !.active_quests = Append(@, q)]
              /\ quests' = [quests EXCEPT ![q] = "in_progress"]
              /\ UNCHANGED <<rooms, enemies, items>>
              /\ Return("accept", quest_name, "accepted", q)

\* CommandParser._cmd_quest_progress: the interpreter's own quest check.
CmdProgress ==
  /\ Ready
  /\ \E st \in {CheckQuestProgress([player |-> player, quests |-> quests])} :
       /\ player' = st.player
       /\ quests' = st.quests
       /\ UNCHANGED <<rooms, enemies, items>>
       /\ Return("progress", <<>>, "progress", None)

\* GameEngine._check_quest_progress, run after every dispatched line: a new
\* QuestSystem is constructed, whose _setup_default_quests replaces every
\* entry of GameState.quests by a fresh NOT_STARTED quest, and its
\* check_quest_progress runs.  The loop then returns to its head.
QuestCheck ==
  /\ pc = "check"
  /\ \E st \in {CheckQuestProgress([player |-> player,
                                     quests |-> [q \in QuestIds |-> "not_started"]])} :
       /\ player' = st.player
       /\ quests' = st.quests
       /\ pc' = "input"
       /\ last' = NoCommand
       /\ UNCHANGED <<rooms, enemies, items, is_game_over>>

(***************************************************************************)
(* Persistence (game/save_system.py).  A document is a tree of nodes        *)
(* [kind, value]: a dict of documents, a list or a set of scalars, or a     *)
(* scalar.                                                                  *)
(***************************************************************************)
Scalar(v) == [kind |-> "scalar", value |-> v]
ListOf(lst) == [kind |-> "list", value |-> lst]
SetOf(S) == [kind |-> "set", value |-> S]
DictOf(f) == [kind |-> "dict", value |-> f]

\* The GameState as one value.
Snapshot ==
  [player |-> player, rooms |-> rooms, enemies |-> enemies, items |-> items,
   quests |-> quests, is_game_over |-> is_game_over]

\* The fields of Player declared Set[str], List[str], and as maps of scalars.
SetFields == {"known_recipes", "completed_quests"}
ListFields == {"inventory", "active_quests"}
MapFields == {"equipment", "status_effects"}

\* BaseModel.model_dump() in python mode: models and dicts become dicts, keyed
\* as they were (a Direction stays the key of its exit), lists stay lists,
\* sets stay sets.
DumpExit(exit) ==
  DictOf([f \in DOMAIN exit |->
            IF f = "required_items" THEN ListOf(exit[f]) ELSE Scalar(exit[f])])

DumpRoom(room) ==
  DictOf([f \in DOMAIN room |->
            IF f = "exits" THEN DictOf([d \in DOMAIN room.exits |-> DumpExit(room.exits[d])])
            ELSE IF f \in {"items", "enemies"} THEN ListOf(room[f])
            ELSE Scalar(room[f])])

DumpPlayer(p) ==
  DictOf([f \in DOMAIN p |->
            IF f \in SetFields THEN SetOf(p[f])
            ELSE IF f \in ListFields THEN ListOf(p[f])
            ELSE IF f \in MapFields THEN DictOf([k \in DOMAIN p[f] |-> Scalar(p[f][k])])
            ELSE Scalar(p[f])])

ModelDump(st) ==
  DictOf([player |-> DumpPlayer(st.player),
          rooms |-> DictOf([r \in DOMAIN st.rooms |-> DumpRoom(st.rooms[r])]),
          enemies |-> DictOf([e \in DOMAIN st.enemies |->
                                DictOf([f \in DOMAIN st.enemies[e] |-> Scalar(st.enemies[e][f])])]),
          items |-> DictOf([id \in st.items |-> Scalar(id)]),
          npcs |-> DictOf([n \in NpcIds |-> Scalar(n)]),
          quests |-> DictOf([q \in DOMAIN st.quests |-> Scalar(st.quests[q])]),
          is_game_over |-> Scalar(st.is_game_over)])

\* SaveSystem._serialize_game_state: the dump (the time stamp it rewrites is
\* no part of the model).
SerializeGameState(st) == ModelDump(st)

\* What json.dump can write: dicts with string keys, lists and scalars.  A
\* set raises TypeError.
RECURSIVE JsonEncodable(_)
JsonEncodable(doc) ==
  CASE doc.kind = "set" -> FALSE
    [] doc.kind = "dict" -> \A k \in DOMAIN doc.value : JsonEncodable(doc.value[k])
    [] OTHER -> TRUE

\* The file a json.dump that raised has left behind: the text up to the value
\* it could not write.
TruncatedFile == [kind |-> "truncated", value |-> None]

\* SaveSystem.save_game: serialize, add the metadata, write the file; an
\* exception is logged and False returned.
SaveGame(st) ==
  LET metadata == DictOf([current_room |-> Scalar(st.player.current_room),
                          player_level |-> Scalar(st.player.level)])
      Written(save_data) ==
        IF JsonEncodable(save_data) /\ JsonEncodable(metadata)
          THEN [saved |-> TRUE, file |-> DictOf([k \in DOMAIN save_data.value \cup {"metadata"} |->
                                                   IF k = "metadata" THEN metadata
                                                   ELSE save_data.value[k]])]
        ELSE [saved |-> FALSE, file |-> TruncatedFile]
  IN  CHOOSE save \in {Written(save_data) : save_data \in {SerializeGameState(st)}} : TRUE

\* SaveSystem._validate_save_data
ValidateSaveData(save_data) ==
  {"player", "rooms", "items", "npcs", "enemies", "quests"} \subseteq DOMAIN save_data.value

\* GameState(**save_data): models are built from dicts, a Set[str] field from
\* a set or a list, the other fields are read as they are; a key that is no
\* field (metadata) is ignored.
LoadPlayer(doc) ==
  [f \in DOMAIN doc.value |->
     LET v == doc.value[f]
     IN  IF f \in SetFields THEN (IF v.kind = "list" THEN Range(v.value) ELSE v.value)
         ELSE IF f \in MapFields THEN [k \in DOMAIN v.value |-> v.value[k].value]
         ELSE v.value]

LoadRoom(doc) ==
  [f \in DOMAIN doc.value |->
     IF f = "exits"
       THEN [d \in DOMAIN doc.value.exits.value |->
               [g \in DOMAIN doc.value.exits.value[d].value |->
                  doc.value.exits.value[d].value[g].value]]
     ELSE doc.value[f].value]

\* SaveSystem._deserialize_game_state
DeserializeGameState(save_data) ==
  [player |-> LoadPlayer(save_data.value.player),
   rooms |-> [r \in DOMAIN save_data.value.rooms.value |-> LoadRoom(save_data.value.rooms.value[r])],
   enemies |-> [e \in DOMAIN save_data.value.enemies.value |->
                  [f \in DOMAIN save_data.value.enemies.value[e].value |->
                     save_data.value.enemies.value[e].value[f].value]],
   items |-> DOMAIN save_data.value.items.value,
   quests |-> [q \in DOMAIN save_data.value.quests.value |-> save_data.value.quests.value[q].value],
   is_game_over |-> save_data.value.is_game_over.value]

\* SaveSystem.load_game: None when the file does not parse or lacks a
\* required key.
LoadGame(file) ==
  IF file.kind # "dict" THEN [loaded |-> FALSE, state |-> None]
  ELSE IF ~ValidateSaveData(file) THEN [loaded |-> FALSE, state |-> None]
  ELSE [loaded |-> TRUE, state |-> DeserializeGameState(file)]

\* GameEngine.save_game followed by SaveSystem.load_game of the same name,
\* between two commands; the loaded state is only looked at.
SaveAndLoad ==
  /\ pc = "input"
  /\ \E save \in {SaveGame(Snapshot)} :
     \E load \in {LoadGame(save.file)} :
       last' = [verb |-> "save_load", target |-> <<>>,
                result |-> IF ~save.saved THEN "save_failed"
                           ELSE IF ~load.loaded THEN "load_failed" ELSE "loaded",
                item |-> load.state, effect |-> None]
  /\ UNCHANGED <<player, rooms, enemies, items, quests, is_game_over, pc>>

\* The keys of CommandParser.commands.
Verbs ==
  {"help", "look", "l", "examine", "take", "drop", "inventory", "use", "talk", "status",
   "score", "save", "load", "attack", "flee", "combat", "equip", "unequip", "equipment",
   "craft", "recipes", "recipe", "learn", "quest", "quests", "accept", "progress",
   "stats", "gold", "level", "shop", "buy", "sell", "history"} \cup Directions

\* The handler parse_and_execute selects for a line split into its tokens.
HandlerOf(parts) ==
  IF parts = <<>> THEN "none"
  ELSE IF parts[1] \in Directions THEN "move"
  ELSE IF parts[1] \in Verbs THEN "command"
  ELSE "unknown"

\* A variant of the unknown-command handler that counts the line as a move.
CmdUnknownCounted(parts) ==
  /\ Ready
  /\ HandlerOf(parts) = "unknown"
  /\ player' = [player EXCEPT !.moves = @ + 1]
  /\ UNCHANGED <<rooms, enemies, items, quests>>
  /\ Return(parts[1], Tail(parts), "dont_understand", None)

\* CommandParser._handle_unknown_command, reached from parse_and_execute when
\* the first token is neither a direction nor a key of the verb table.
CmdUnknown(parts) ==
  /\ Ready
  /\ HandlerOf(parts) = "unknown"
  /\ Reply(parts[1], Tail(parts), "dont_understand", None)

\* A line without a token: parse_and_execute returns None for it, and the
\* game loop, which strips the line first, goes back to the prompt without
\* processing it and without the quest check.
EmptyLine(parts) ==
  /\ Ready
  /\ HandlerOf(parts) = "none"
  /\ last' = [verb |-> "", target |-> parts, result |-> "no_response", item |-> None,
              effect |-> None]
  /\ UNCHANGED <<player, rooms, enemies, items, quests, is_game_over, pc>>

\* The verbs of the verb table whose handlers only report (examine, which
\* has its own action, aside).
InformVerbs ==
  {"help", "look", "l", "inventory", "status", "score", "stats", "gold", "level",
   "equipment", "recipes", "recipe", "quest", "quests", "shop", "combat", "talk",
   "history", "save", "load"}

\* What the handler of an informational verb reports for the text after the
\* verb: _cmd_talk, _cmd_recipe_info, _cmd_quest, _cmd_shop,
\* _cmd_combat_status and _cmd_recipes look at the state, _cmd_save and
\* _cmd_load return a message for a file they never touch, the others print
\* what they read.
InformResult(verb, target) ==
  LET IsNpc(n) == n \in NpcIds /\ IsSubstring(target, Lower(WorldNpcs[n].name))
  IN  IF verb = "talk"
        THEN IF target = <<>> THEN "what"
             ELSE IF FirstIndex(WorldRooms[player.current_room].npcs, IsNpc) # 0
               THEN "spoke" ELSE "dont_see"
      ELSE IF verb = "recipe"
        THEN IF target = <<>> THEN "what"
             ELSE IF FindRecipe(target) = None THEN "recipe_not_found" ELSE "shown"
      ELSE IF verb = "quest"
        THEN IF target = <<>> THEN "what"
             ELSE IF FindQuest(target) = None THEN "quest_not_found" ELSE "shown"
      ELSE IF verb = "shop"
        THEN IF FindMerchant = None THEN "no_merchant" ELSE "shown"
      ELSE IF verb = "combat"
        THEN IF FirstAliveEnemy = None THEN "no_enemies" ELSE "shown"
      ELSE IF verb = "recipes"
        THEN IF player.known_recipes = {} THEN "none_known" ELSE "shown"
      ELSE IF verb \in {"save", "load"} THEN "message_only"
      ELSE "shown"

\* A variant of the informational commands whose load starts the player anew.
CmdInformLoading(verb, target) ==
  /\ Ready
  /\ verb \in InformVerbs
  /\ player' = IF verb = "load" THEN NewPlayer ELSE player
  /\ UNCHANGED <<rooms, enemies, items, quests>>
  /\ Return(verb, target, InformResult(verb, target), None)

\* The handlers of the informational verbs: _cmd_help, _cmd_look,
\* _cmd_inventory, _cmd_status, _cmd_score, _cmd_stats, _cmd_gold, _cmd_level,
\* _cmd_equipment, _cmd_recipes, _cmd_recipe_info, _cmd_quest, _cmd_quests,
\* _cmd_shop, _cmd_combat_status, _cmd_talk, _cmd_history, _cmd_save,
\* _cmd_load.  None of them assigns to the state.
CmdInform(verb, target) ==
  /\ Ready
  /\ verb \in InformVerbs
  /\ Reply(verb, target, InformResult(verb, target), None)

\* GameEngine.start_game: the two starting recipes are given, the current
\* room is displayed (_display_room marks it visited) and the loop begins.
StartGame ==
  /\ pc = "start"
  /\ player' = [player EXCEPT !.known_recipes = @ \cup {"torch", "health_potion"}]
  /\ rooms' = [rooms EXCEPT ![player.current_room].is_visited = TRUE]
  /\ last' = [verb |-> "start", target |-> <<>>, result |-> "displayed", item |-> None,
              effect |-> Shown(rooms[player.current_room], player.current_room)]
  /\ pc' = "input"
  /\ UNCHANGED <<enemies, items, quests, is_game_over>>

\* The words on which _game_loop breaks before _process_command.
QuitWords == {"quit", "exit", "q"}

\* _game_loop on quit, exit or q: the loop is left, nothing is processed.
QuitLine(word) ==
  /\ Ready
  /\ word \in QuitWords
  /\ pc' = "done"
  /\ last' = [verb |-> word, target |-> <<>>, result |-> "quit", item |-> None,
              effect |-> None]
  /\ UNCHANGED <<player, rooms, enemies, items, quests, is_game_over>>

\* CommandParser._cmd_examine: a description of the first match among the
\* inventory, the room's items, its npcs and its enemies.
CmdExamine(target) ==
  LET here == player.current_room
      Hit(id) == id \in items /\ Matches(target, ItemOf(id))
      held == FindInInventory(target)
      k == FirstIndex(rooms[here].items, Hit)
      IsNpc(n) == IsSubstring(target, Lower(WorldNpcs[n].name))
      IsEnemy(e) == IsSubstring(target, Lower(WorldEnemies[e].name))
      n == FirstIndex(WorldRooms[here].npcs, IsNpc)
      e == FirstIndex(rooms[here].enemies, IsEnemy)
  IN  /\ Ready
      /\ IF target = <<>> THEN Reply("examine", target, "what", None)
         ELSE IF held # None THEN Reply("examine", target, "item", held)
         ELSE IF k # 0 THEN Reply("examine", target, "item", rooms[here].items[k])
         ELSE IF n # 0 THEN Reply("examine", target, "npc", WorldRooms[here].npcs[n])
         ELSE IF e # 0 THEN Reply("examine", target, "enemy", rooms[here].enemies[e])
         ELSE Reply("examine", target, "not_here", None)

(***************************************************************************)
(* The lines typed.  Player.moves and Player.score grow without limit in   *)
(* the program: a direction is typed only below a bound on moves and take  *)
(* only below MaxScore points.  A specification is a player: the words it  *)
(* types and the room in which it picks a fight.  No player walks away     *)
(* from a wounded enemy.                                                   *)
(***************************************************************************)
MaxMoves == 7
MaxStroll == 3
MaxScore == 28

s_xyzzy == <<"x", "y", "z", "z", "y">>
s_sconce == <<"s", "c", "o", "n", "c", "e">>
s_chart == <<"c", "h", "a", "r", "t">>
s_stew == <<"s", "t", "e", "w">>
s_hunter == <<"h", "u", "n", "t", "e", "r">>
s_explorer == <<"e", "x", "p", "l", "o", "r", "e", "r">>
s_collection == <<"c", "o", "l", "l", "e", "c", "t", "i", "o", "n">>

\* An enemy of the room is wounded: a fight is under way.
Engaged ==
  \E k \in 1..Len(rooms[player.current_room].enemies) :
     LET e == rooms[player.current_room].enemies[k]
     IN  enemies[e].is_alive /\ enemies[e].health < WorldEnemies[e].max_health

At(places) == player.current_room \in places

Move(words, limit) ==
  \E d \in words : player.moves < limit /\ ~Engaged /\ CmdMove(d)
Take(words) == \E t \in words : player.score < MaxScore /\ CmdTake(t)
Drop(words) == \E t \in words : CmdDrop(t)
Use(words) == \E t \in words : CmdUse(t)
Examine(words) == \E t \in words : CmdExamine(t)
Equip(words) == \E t \in words : CmdEquip(t)
Unequip(words) == \E s \in words : CmdUnequip(s)
Buy(words) == \E t \in words : CmdBuy(t)
Sell(words) == \E t \in words : CmdSell(t)
Craft(words) == \E t \in words : CmdCraft(t)
Learn(words) == \E r \in words : CmdLearn(r)
Accept(words) == \E t \in words : CmdAccept(t)
Attack(words) == \E t \in words : CmdAttack(t)
Unknown(lines) == \E parts \in lines : CmdUnknown(parts)
Empty(lines) == \E parts \in lines : EmptyLine(parts)

\* The shopper: strolls between the entrance and the market.
Next ==
  \/ Move({"east", "west", "up"}, MaxStroll)
  \/ Take({s_herb, s_map, s_torch, s_coin, s_xyzzy, <<>>})
  \/ Drop({s_torch, s_xyzzy, <<>>})
  \/ Use({s_torch, s_xyzzy})
  \/ Examine({s_map, s_merchant, s_xyzzy})
  \/ Equip({s_torch, s_xyzzy})
  \/ Unequip({"weapon", "belt", ""})
  \/ Buy({s_torch, s_xyzzy})
  \/ Sell({s_herb, s_map, s_torch, s_coin, s_xyzzy})
  \/ Craft({s_health_potion, s_leather_armor, s_stew})
  \/ Learn({"leather_armor", "stew"})
  \/ Accept({s_collection, s_hunter, s_xyzzy})
  \/ Attack({s_goblin})
  \/ CmdFlee
  \/ CmdProgress
  \/ QuestCheck

Spec == Init /\ [][Next]_vars

\* The crafter: gathers a herb, cloth, wood and water on the way to the
\* cave, tries the rusty key by a fragment of its name, crafts.
NextCraft ==
  \/ Move({"north", "east", "west"}, MaxMoves)
  \/ Take({s_herb, s_cloth, s_wood, s_water, s_rus, s_rusty_key})
  \/ Drop({s_rus, s_rusty_key})
  \/ Use({s_rus, s_rusty_key})
  \/ Examine({s_rus, s_rusty_key})
  \/ Equip({s_rus, s_rusty_key})
  \/ Buy({s_tor, s_torch})
  \/ Sell({s_rus, s_cloth})
  \/ Craft({s_torch, s_health_potion})
  \/ QuestCheck

SpecCraft == Init /\ [][NextCraft]_vars

\* The goblin hunter: takes the guard's quest, fights in the corridor, walks
\* on to the deep cavern.
NextQuest ==
  \/ Move({"north", "east", "down"}, MaxMoves)
  \/ Accept({s_hunter})
  \/ At({"corridor"}) /\ Attack({s_goblin})
  \/ Take({s_sword, s_needle, s_potion})
  \/ Use({s_potion})
  \/ Equip({s_sword})
  \/ Unequip({"weapon"})
  \/ QuestCheck

SpecQuest == Init /\ [][NextQuest]_vars

\* The cave explorer: takes the guard's quest, fetches the sword from the
\* deep cavern, fights in the cave.
NextCombat ==
  \/ Move({"north", "east", "down", "up"}, MaxMoves)
  \/ Accept({s_explorer})
  \/ Take({s_sword})
  \/ Equip({s_sword})
  \/ At({"cave"}) /\ Attack({s_bandit})
  \/ At({"cave"}) /\ CmdFlee
  \/ QuestCheck

SpecCombat == Init /\ [][NextCombat]_vars

\* The gatekeeper: walks about the entrance of a saved game whose exit to
\* the north carries gates, with or without the torch and the map.
GatedExits ==
  {[destination |-> "guard_room", is_open |-> is_open, is_locked |-> is_locked,
    required_key |-> required_key, required_level |-> required_level,
    required_items |-> required_items] :
     is_open \in BOOLEAN, is_locked \in BOOLEAN, required_key \in {None, "torch"},
     required_level \in {1, 2}, required_items \in {<<>>, <<s_map>>, <<s_torch, s_map>>}}

InitGates ==
  /\ player \in {NewPlayer, LevelUp([NewPlayer EXCEPT !.experience = 100])}
  /\ rooms \in {[NewRooms EXCEPT !["entrance"].exits["north"] = exit] : exit \in GatedExits}
  /\ enemies = [e \in EnemyIds |->
                  [health |-> WorldEnemies[e].health, is_alive |-> TRUE]]
  /\ items = DOMAIN WorldItems
  /\ quests = [q \in QuestIds |-> "not_started"]
  /\ is_game_over = FALSE
  /\ pc = "input"
  /\ last = NoCommand

NextGates ==
  \/ Move({"north", "south", "east", "west"}, MaxStroll)
  \/ Take({s_torch, s_map})
  \/ Drop({s_torch})
  \/ QuestCheck

SpecGates == InitGates /\ [][NextGates]_vars

\* The veteran: a saved game with experience on the account (none, just under
\* the threshold, far over it) goes for the goblin in the corridor.
SavedExperience == {0, 95, 260}

InitVeteran ==
  /\ player \in {[NewPlayer EXCEPT !.experience = x] : x \in SavedExperience}
  /\ rooms = NewRooms
  /\ enemies = [e \in EnemyIds |->
                  [health |-> WorldEnemies[e].health, is_alive |-> TRUE]]
  /\ items = DOMAIN WorldItems
  /\ quests = [q \in QuestIds |-> "not_started"]
  /\ is_game_over = FALSE
  /\ pc = "input"
  /\ last = NoCommand

NextVeteran ==
  \/ SaveAndLoad
  \/ Move({"north", "east"}, MaxStroll)
  \/ At({"corridor"}) /\ Attack({s_goblin})
  \/ QuestCheck

SpecVeteran == InitVeteran /\ [][NextVeteran]_vars

\* The herbalist: a saved game of a player who has been to the deep cavern,
\* with herbs in the pack (and the ruby on top) and the merchant's, the
\* wizard's or the guard's quest accepted, walks to the market or to the
\* treasure room, picks up and puts down a herb, reaches for the chest.
SavedPacks ==
  {<<"herb", "herb", "herb", "herb">>,
   <<"herb", "herb", "herb", "herb", "herb">>,
   <<"herb", "gem", "herb", "herb", "torch", "herb", "herb", "herb">>}

SavedActive ==
  {<<"collect_herbs">>, <<"find_gem", "collect_herbs">>, <<"explore_caves", "collect_herbs">>}

InitHerbalist ==
  /\ player \in {[NewPlayer EXCEPT !.inventory = pack, !.active_quests = active] :
                   pack \in SavedPacks, active \in SavedActive}
  /\ rooms = [NewRooms EXCEPT !["deep_cavern"].is_visited = TRUE]
  /\ enemies = [e \in EnemyIds |->
                  [health |-> WorldEnemies[e].health, is_alive |-> TRUE]]
  /\ items = DOMAIN WorldItems
  /\ quests = [q \in QuestIds |->
                 IF InList(q, player.active_quests) THEN "in_progress" ELSE "not_started"]
  /\ is_game_over = FALSE
  /\ pc = "input"
  /\ last = NoCommand

NextHerbalist ==
  \/ Move({"east", "west", "north"}, MaxStroll)
  \/ Take({s_herb, s_chest})
  \/ At({"entrance"}) /\ Drop({s_herb})
  \/ Accept({s_collection})
  \/ CmdProgress
  \/ Unknown({<<"get", "herb">>, <<"go", "north">>, <<>>})
  \/ Empty({<<"get", "herb">>, <<>>})
  \/ QuestCheck

SpecHerbalist == InitHerbalist /\ [][NextHerbalist]_vars

\* The warden: a saved game in which the goblin (wounded or dead) and the
\* wounded skeleton have come to the entrance, a safe zone, where a sconce
\* and an unfound chart lie among the items.
SavedShelves ==
  {<<"sconce", "torch", "chart", "map", "herb">>,
   <<"torch", "sconce", "map", "chart", "herb">>}

SavedGoblins == {[health |-> 2, is_alive |-> TRUE], [health |-> 0, is_alive |-> FALSE]}

InitWarden ==
  /\ player = NewPlayer
  /\ rooms \in {[NewRooms EXCEPT !["entrance"].items = shelf,
                                  !["entrance"].enemies = <<"goblin", "skeleton">>,
                                  !["corridor"].enemies = <<>>,
                                  !["secret_passage"].enemies = <<>>] :
                  shelf \in SavedShelves}
  /\ enemies \in {[e \in EnemyIds |->
                     IF e = "goblin" THEN goblin
                     ELSE IF e = "skeleton" THEN [health |-> 2, is_alive |-> TRUE]
                     ELSE [health |-> WorldEnemies[e].health, is_alive |-> TRUE]] :
                   goblin \in SavedGoblins}
  /\ items = DOMAIN WorldItems \cup DOMAIN SavedItems
  /\ quests = [q \in QuestIds |-> "not_started"]
  /\ is_game_over = FALSE
  /\ pc = "input"
  /\ last = NoCommand

NextWarden ==
  \/ Attack({s_goblin, s_skeleton, s_xyzzy, <<>>})
  \/ Take({s_torch, s_map, s_sconce})
  \/ QuestCheck

SpecWarden == InitWarden /\ [][NextWarden]_vars

\* The session: the engine as constructed, or with a saved game of a wounded
\* player loaded, before start_game; the player walks to the treasure room,
\* the wounded one fights the goblin on the way, and either may quit.
SavedHealth == {100, 5}

Wounded == player.health < 10

Quit(words) == \E w \in words : QuitLine(w)

InitSession ==
  /\ player \in {[NewPlayer EXCEPT !.known_recipes = {}, !.health = h] : h \in SavedHealth}
  /\ rooms = [r \in RoomIds |-> [NewRooms[r] EXCEPT !.is_visited = FALSE]]
  /\ enemies = [e \in EnemyIds |->
                  [health |-> WorldEnemies[e].health, is_alive |-> TRUE]]
  /\ items = DOMAIN WorldItems
  /\ quests = [q \in QuestIds |-> "not_started"]
  /\ is_game_over = FALSE
  /\ pc = "start"
  /\ last = NoCommand

NextSession ==
  \/ StartGame
  \/ Move({"north", "south", "east", "west", "up", "down"}, MaxMoves)
  \/ Take({s_torch, s_chest, s_gem})
  \/ Accept({s_ruby})
  \/ Wounded /\ Attack({s_goblin})
  \/ Unknown({<<"get", "herb">>, <<>>})
  \/ Empty({<<"get", "herb">>, <<>>})
  \/ Quit({"quit", "exit", "q"})
  \/ QuestCheck

SpecSession == InitSession /\ [][NextSession]_vars

\* The armoury: a saved game with weapons and armour in the inventory is
\* loaded at the entrance; the player changes what is worn and carried.
SavedKits ==
  {<<"sword", "iron_sword", "leather_armor">>, <<"sword", "sword">>, <<"leather_armor">>}

InitArmoury ==
  /\ player \in {[NewPlayer EXCEPT !.inventory = kit] : kit \in SavedKits}
  /\ rooms = NewRooms
  /\ enemies = [e \in EnemyIds |->
                  [health |-> WorldEnemies[e].health, is_alive |-> TRUE]]
  /\ items = DOMAIN WorldItems
  /\ quests = [q \in QuestIds |-> "not_started"]
  /\ is_game_over = FALSE
  /\ pc = "input"
  /\ last = NoCommand

NextArmoury ==
  \/ Take({s_torch, s_sword})
  \/ Drop({s_torch, s_sword})
  \/ Equip({s_sword, s_iron_sword, s_leather_armor, s_torch})
  \/ Unequip({"weapon", "armor", "helmet", "belt", ""})
  \/ QuestCheck

SpecArmoury == InitArmoury /\ [][NextArmoury]_vars

\* The tourist: strolls between the entrance, the market and the guard room,
\* picks up the herb and the torch, takes the merchant's quest, and asks for
\* every kind of information on the way.
Inform(verbs, words) == \E verb \in verbs, target \in words : CmdInform(verb, target)

NextTourist ==
  \/ Move({"east", "west", "north"}, MaxStroll)
  \/ Take({s_herb, s_torch})
  \/ Equip({s_torch})
  \/ Accept({s_collection})
  \/ Inform(InformVerbs, {<<>>, s_merchant, s_torch, s_collection})
  \/ Examine({s_torch, s_merchant, s_xyzzy, <<>>})
  \/ QuestCheck

SpecTourist == Init /\ [][NextTourist]_vars

\* The duel: a saved game is loaded in the cave, the bandit fresh or nearly
\* beaten, the player wounded and just short of the next level; the player
\* keeps typing attack.
SavedBandits == {50, 3}

InitDuel ==
  /\ player = [NewPlayer EXCEPT !.current_room = "cave", !.experience = 95,
                                 !.health = 40]
  /\ rooms = [NewRooms EXCEPT !["cave"].is_visited = TRUE]
  /\ enemies \in {[e \in EnemyIds |->
                     [health |-> IF e = "bandit" THEN h ELSE WorldEnemies[e].health,
                      is_alive |-> TRUE]] : h \in SavedBandits}
  /\ items = DOMAIN WorldItems
  /\ quests = [q \in QuestIds |-> "not_started"]
  /\ is_game_over = FALSE
  /\ pc = "input"
  /\ last = NoCommand

NextDuel ==
  \/ Attack({s_bandit})
  \/ QuestCheck

\* The player repeats the attack command, and the loop runs its quest check
\* after each.
SpecDuel ==
  InitDuel /\ [][NextDuel]_vars
    /\ WF_vars(Attack({s_bandit})) /\ WF_vars(QuestCheck)

\* The damage formula on its own: _calculate_damage called with attack and
\* defense values from -MaxStat to MaxStat and each random offset, besides
\* the fight with the goblin that calls it with the values of the world.
MaxStat == 12

CalculateDamageCall ==
  \E attack_damage \in -MaxStat..MaxStat, defense \in -MaxStat..MaxStat, offset \in Offsets :
     /\ pc = "input"
     /\ player.moves = 0
     /\ last = NoCommand
     /\ last' = [verb |-> "calculate_damage",
                 target |-> <<attack_damage, defense, offset>>,
                 result |-> "", item |-> None,
                 effect |-> CalculateDamage(attack_damage, defense, offset)]
     /\ UNCHANGED <<player, rooms, enemies, items, quests, is_game_over, pc>>

NextDamage ==
  \/ CalculateDamageCall
  \/ Move({"north", "east"}, MaxStroll)
  \/ At({"corridor"}) /\ Attack({s_goblin})
  \/ QuestCheck

SpecDamage == Init /\ [][NextDamage]_vars

(***************************************************************************)
(* Properties.                                                             *)
(***************************************************************************)
InRoom(id) == \E r \in RoomIds : InList(id, rooms[r].items)

Held(id) == InList(id, player.inventory)

Here == player.current_room

\* The ids the world supplies once: placed in one room, carried by no enemy,
\* sold by no merchant, rewarded by no quest, the result of no recipe.
SingleSupplyIds ==
  {id \in DOMAIN WorldItems :
     /\ Cardinality({r \in RoomIds : InList(id, WorldRooms[r].items)}) = 1
     /\ \A r \in RoomIds : Count(id, WorldRooms[r].items) <= 1
     /\ \A e \in EnemyIds : ~InList(id, WorldEnemies[e].inventory)
     /\ \A n \in NpcIds : ~InList(id, WorldNpcs[n].shop_items)
     /\ \A q \in QuestIds : \A k \in 1..Len(Quests[q].rewards) : Quests[q].rewards[k][1] # id
     /\ \A r \in RecipeIds : Recipes[r].result_item # id}

SlotOf(id) == IF ItemOf(id).item_type = "weapon" THEN "weapon" ELSE "armor"

C4_AliveIffHealth ==
  /\ ~player.is_alive <=> player.health = 0
  /\ \A e \in EnemyIds : ~enemies[e].is_alive <=> enemies[e].health = 0

\* The bandit was killed and the kill levelled the player up.
C4_KillWithLevelUp ==
  /\ last.verb = "attack" /\ last.result = "defeated" /\ last.item = "bandit"
  /\ ~enemies["bandit"].is_alive
  /\ player.level = 2

\* C5: the player's health is within 0 .. max_health.
C5_PlayerHealthInRange ==
  0 <= player.health /\ player.health <= player.max_health

\* A failed flee (penalty, then the bandit's blow) defeated the player.
C5_FleeToDeath ==
  /\ last.verb = "flee" /\ last.result = "flee_failed"
  /\ ~player.is_alive
  /\ player.health = 0

\* C6: every enemy's health is within 0 .. max_health (the heal ability is
\* capped, a killing blow leaves 0).
C6_EnemyHealthInRange ==
  \A e \in EnemyIds :
     0 <= enemies[e].health /\ enemies[e].health <= WorldEnemies[e].max_health

\* The bandit was hit, healed itself in the same turn and is at full health.
C6_HealAtCap ==
  /\ last.verb = "attack" /\ last.result = "countered" /\ last.effect = "heal"
  /\ enemies["bandit"].health = WorldEnemies["bandit"].max_health

\* The responses that report an unresolved target or an ineligible action.
Refusals ==
  {"what", "cant_go", "closed", "locked_need_key", "locked", "need_level", "need_item",
   "not_here", "cant_take", "not_visible", "dont_have", "cant_equip",
   "invalid_slot", "nothing_equipped", "no_merchant", "not_sold", "not_enough_gold",
   "recipe_not_found", "not_known", "level_too_low", "missing_materials",
   "already_known", "quest_not_found", "already_accepted", "already_completed",
   "cannot_accept", "no_enemies"}

\* C7: a command that ends with a refusal leaves the whole GameState as it
\* was before the command, and so does the quest check the game loop runs
\* after it.
C7_RefusalChangesNothing ==
  [][/\ last'.result \in Refusals => GameState' = GameState
     /\ (pc = "check" /\ last.result \in Refusals) => GameState' = GameState]_vars

\* A purchase was refused for lack of gold, in the market.
C7_PurchaseRefused ==
  /\ last.verb = "buy" /\ last.result = "not_enough_gold" /\ last.item = "torch"
  /\ player.gold < 15

\* What craft's material check is stated to require: for every material at
\* least the required count of inventory items named like it.
HoldsMaterials(p, r) ==
  \A m \in 1..Len(Recipes[r].materials) :
     PlayerHasMaterial(p.inventory, Recipes[r].materials[m][1], Recipes[r].materials[m][2])
       >= Recipes[r].materials[m][2]

CraftRefusals == {"what", "recipe_not_found", "not_known", "level_too_low", "missing_materials"}

\* C8: with fewer than the required count of some material craft is
\* refused and the inventory is not touched.
C8_CraftRefusedBelowCount ==
  [][(/\ last'.verb = "craft"
      /\ FindRecipe(last'.target) # None
      /\ ~HoldsMaterials(player, FindRecipe(last'.target)))
       => (last'.result \in CraftRefusals /\ player'.inventory = player.inventory)]_vars

\* C9: a craft with the full materials removes the required count of every
\* material and appends one occurrence of the recipe's result id.
C9_CraftAppendsResult ==
  [][(/\ last'.verb = "craft"
      /\ last'.result \notin CraftRefusals
      /\ HoldsMaterials(player, FindRecipe(last'.target)))
       => LET r == FindRecipe(last'.target)
          IN  /\ \A m \in 1..Len(Recipes[r].materials) :
                    PlayerHasMaterial(player'.inventory, Recipes[r].materials[m][1], 0)
                      = PlayerHasMaterial(player.inventory, Recipes[r].materials[m][1], 0)
                          - Recipes[r].materials[m][2]
              /\ Count(Recipes[r].result_item, player'.inventory)
                   = Count(Recipes[r].result_item, player.inventory) + 1]_vars

ItemVerbs == {"take", "drop", "examine", "use", "equip", "buy", "sell"}

\* The responses of an item command that found no matching item.
Unmatched == {"not_here", "dont_have", "not_sold", "npc", "enemy"}

\* The candidates an item command looked through, in the state a response
\* without a match leaves unchanged.
Candidates(verb) ==
  IF verb = "take" THEN rooms[Here].items
  ELSE IF verb = "examine" THEN player.inventory \o rooms[Here].items
  ELSE IF verb = "buy" THEN WorldNpcs[FindMerchant].shop_items
  ELSE player.inventory

ExactlyNamed(target, item) == target \in {Lower(item.name)} \cup Range(item.keywords)

FragmentOf(target, item) ==
  \/ IsSubstring(target, Lower(item.name))
  \/ \E k \in 1..Len(item.keywords) : IsSubstring(target, item.keywords[k])

\* The item commands answered to a typed target.
Answered ==
  /\ pc = "check"
  /\ last.verb \in ItemVerbs
  /\ last.target # <<>>
  /\ last.result # "no_merchant"

C11_UsePotionHeals ==
  [][(/\ last'.verb = "use"
      /\ last'.item # None
      /\ ItemOf(last'.item).item_type = "potion"
      /\ ItemOf(last'.item).healing_value > 0)
       => /\ player'.inventory = Remove(player.inventory, last'.item)
          /\ FirstAliveEnemy = None =>
                player'.health
                  = Min(player.max_health, player.health + ItemOf(last'.item).healing_value)
          /\ FirstAliveEnemy # None =>
                player'.health
                  < Min(player.max_health, player.health + ItemOf(last'.item).healing_value)]_vars

\* The gates of a move as the claim lists them.
ExitOpen(exit) == exit.is_open

ExitUnlocked(exit, p) ==
  exit.is_locked => (exit.required_key # None /\ InList(exit.required_key, p.inventory))

LevelReached(exit, p) == p.level >= exit.required_level

ItemsHeld(exit, p) ==
  \A k \in 1..Len(exit.required_items) :
     \E i \in 1..Len(p.inventory) :
        IsSubstring(exit.required_items[k], Lower(ItemOf(p.inventory[i]).name))

\* C12: a move changes the room only if every gate passes, and a refused
\* move reports the first failing gate in the order exit exists, is_open,
\* lock (a locked exit passes only with its configured key in the
\* inventory), required_level, required_items.
C12_FirstFailingGate ==
  [][last'.verb \in Directions =>
       LET exits == rooms[Here].exits
           exit == exits[last'.verb]
           result == last'.result
       IN  /\ result = "cant_go" <=> last'.verb \notin DOMAIN exits
           /\ last'.verb \in DOMAIN exits =>
                /\ result = "closed" <=> ~ExitOpen(exit)
                /\ result \in {"locked", "locked_need_key"}
                     <=> (ExitOpen(exit) /\ ~ExitUnlocked(exit, player))
                /\ result = "locked" => exit.required_key = None
                /\ result = "need_level"
                     <=> (ExitOpen(exit) /\ ExitUnlocked(exit, player)
                            /\ ~LevelReached(exit, player))
                /\ result = "need_item"
                     <=> (ExitOpen(exit) /\ ExitUnlocked(exit, player)
                            /\ LevelReached(exit, player) /\ ~ItemsHeld(exit, player))
                /\ result = "moved"
                     <=> (ExitOpen(exit) /\ ExitUnlocked(exit, player)
                            /\ LevelReached(exit, player) /\ ItemsHeld(exit, player))
           /\ player'.current_room # player.current_room => result = "moved"]_vars

\* A locked exit that also asks for level 2 refused a level 1 player for
\* the lock.
C12_LockBeforeLevel ==
  /\ last.verb = "north" /\ last.result = "locked"
  /\ Here = "entrance"
  /\ rooms[Here].exits["north"].required_level > player.level

MoveRefusals == {"cant_go", "closed", "locked", "locked_need_key", "need_level", "need_item"}

\* C13: a move in a direction without an exit, or through an exit one of
\* whose gates fails, is answered with a refusal and leaves the player's
\* room, the move counter and every room's is_visited flag as they were.
C13_RefusedMoveStays ==
  [][(last'.verb \in Directions /\ last'.result # "moved") =>
       /\ last'.result \in MoveRefusals
       /\ player'.current_room = player.current_room
       /\ player'.moves = player.moves
       /\ \A r \in RoomIds : rooms'[r].is_visited = rooms[r].is_visited]_vars

\* Back at the entrance after a stroll to the market, the way north was
\* refused for a missing item.
C13_RefusedAfterStroll ==
  /\ last.verb = "north" /\ last.result = "need_item"
  /\ Here = "entrance"
  /\ player.moves = 2
  /\ rooms["market"].is_visited /\ ~rooms["guard_room"].is_visited

\* C14: a successful move sets the player's room to the exit's destination,
\* adds one to the move counter, marks the destination visited and changes
\* nothing else of the GameState.
C14_MoveFrame ==
  [][(last'.verb \in Directions /\ last'.result = "moved") =>
       LET destination == rooms[Here].exits[last'.verb].destination
       IN  /\ player' = [player EXCEPT !.current_room = destination,
                                        !.moves = player.moves + 1]
           /\ rooms' = [rooms EXCEPT ![destination].is_visited = TRUE]
           /\ enemies' = enemies
           /\ items' = items
           /\ quests' = quests
           /\ is_game_over' = is_game_over]_vars

\* The player carried the torch from the entrance into the market, seen
\* for the first time.
C14_FirstVisitWithTorch ==
  /\ last.verb = "east" /\ last.result = "moved"
  /\ Here = "market"
  /\ player.moves = 1
  /\ Held("torch")

\* The hits the player can land on enemy e, and the blows e can land.
PlayerHits(e) ==
  {CalculateDamage(GetWeaponDamage(player) + Max(1, player.strength \div 3),
                   WorldEnemies[e].armor, offset) : offset \in Offsets}

EnemyBlows(e) ==
  {CalculateDamage(WorldEnemies[e].damage, GetPlayerArmor(player), offset) : offset \in Offsets}

\* The health of a hit enemy that survived: as the hit left it, or healed
\* once by its own ability.
AfterHit(e, hit) ==
  {enemies[e].health - hit,
   Min(WorldEnemies[e].max_health, enemies[e].health - hit + WorldEnemies[e].max_health \div 4)}

\* C15: an attack that finds an alive enemy lands one hit on that one enemy;
\* if the enemy survives, that enemy lands exactly one blow on the player;
\* if it dies, the player takes no damage in that command.
C15_OneHitOneCounter ==
  [][(last'.verb = "attack" /\ last'.result # "no_enemies") =>
       LET e == last'.item
       IN  /\ last'.result \in {"defeated", "countered"}
           /\ \A other \in EnemyIds \ {e} : enemies'[other] = enemies[other]
           /\ last'.result = "defeated" =>
                /\ \E hit \in PlayerHits(e) : enemies[e].health - hit <= 0
                /\ enemies'[e].health = 0
                /\ player'.health >= player.health
           /\ last'.result = "countered" =>
                /\ \E hit \in PlayerHits(e) :
                      /\ enemies[e].health - hit > 0
                      /\ enemies'[e].health \in AfterHit(e, hit)
                /\ \E blow \in EnemyBlows(e) :
                      player'.health = Max(0, player.health - blow)]_vars

\* The bandit survived a hit and struck back; the skeleton next door is
\* untouched.
C15_BanditStruckBack ==
  /\ last.verb = "attack" /\ last.result = "countered" /\ last.item = "bandit"
  /\ enemies["bandit"].health < WorldEnemies["bandit"].max_health
  /\ player.health < player.max_health
  /\ enemies["skeleton"].health = WorldEnemies["skeleton"].max_health

\* C16: an enemy's experience and gold rewards and its loot are granted at
\* the attack that takes it from alive to dead and at no other attack; an
\* attack only ever selects an alive enemy, and a dead enemy stays dead.
C16_RewardsOnce ==
  [][/\ \A e \in EnemyIds : ~enemies[e].is_alive => ~enemies'[e].is_alive
     /\ (last'.verb = "attack" /\ last'.result # "no_enemies") =>
          LET e == last'.item
              gained == player.experience + WorldEnemies[e].experience_reward
          IN  /\ enemies[e].is_alive
              /\ IF enemies'[e].is_alive
                    THEN /\ player'.gold = player.gold
                         /\ player'.experience = player.experience
                         /\ player'.level = player.level
                         /\ rooms' = rooms
                  ELSE /\ enemies'[e].health = 0
                       /\ player'.gold = player.gold + WorldEnemies[e].gold_reward
                       /\ player'.experience
                            \in {gained, gained - player.experience_to_next}
                       /\ rooms'[Here].items = rooms[Here].items \o WorldEnemies[e].inventory
     /\ (last'.verb = "attack" /\ last'.result = "no_enemies") =>
          /\ player' = player /\ rooms' = rooms]_vars

\* The goblin is dead, its rewards and loot were granted, and a further
\* attack in the corridor found no enemy.
C16_NoSecondKill ==
  /\ last.verb = "attack" /\ last.result = "no_enemies"
  /\ Here = "corridor"
  /\ ~enemies["goblin"].is_alive
  /\ Count("herb", rooms["corridor"].items) = 1
  /\ player.gold \in {WorldEnemies["goblin"].gold_reward,
                       WorldEnemies["goblin"].gold_reward + Quests["defeat_goblin"].gold_reward}

\* C17: when a kill raises the experience to E >= the threshold T, one
\* level-up is applied: level + 1, experience E - T, threshold floor(1.5 T),
\* max_health + 10, health at the new max_health, the four attributes + 1.
C17_LevelUpOnKill ==
  [][(last'.verb = "attack" /\ last'.result = "defeated") =>
       LET E == player.experience + WorldEnemies[last'.item].experience_reward
           T == player.experience_to_next
       IN  IF E >= T
             THEN /\ player'.level = player.level + 1
                  /\ player'.experience = E - T
                  /\ 2 * player'.experience_to_next <= 3 * T
                  /\ 2 * player'.experience_to_next > 3 * T - 2
                  /\ player'.max_health = player.max_health + 10
                  /\ player'.health = player'.max_health
                  /\ player'.strength = player.strength + 1
                  /\ player'.dexterity = player.dexterity + 1
                  /\ player'.intelligence = player.intelligence + 1
                  /\ player'.constitution = player.constitution + 1
           ELSE /\ player'.level = player.level
                /\ player'.experience = E
                /\ player'.experience_to_next = T
                /\ player'.max_health = player.max_health
                /\ player'.health = player.health]_vars

\* The goblin's 25 experience took a wounded player from 95 to 120: level 2
\* with 20 experience, threshold 150 and full health 110.
C17_FromNinetyFive ==
  /\ last.verb = "attack" /\ last.result = "defeated" /\ last.item = "goblin"
  /\ player.level = 2
  /\ player.experience = 20
  /\ player.experience_to_next = 150
  /\ player.health = 110 /\ player.max_health = 110

\* C18: no command raises the level by more than 1, also when the
\* experience left after the level-up still reaches the new threshold.
C18_OneLevelPerCommand ==
  [][player'.level <= player.level + 1]_vars

\* A kill levelled the player up once and left more experience than the new
\* threshold asks for.
C18_ExperienceLeftOver ==
  /\ last.verb = "attack" /\ last.result = "defeated"
  /\ player.level = 2
  /\ player.experience >= player.experience_to_next

\* C19: for attack and defense values and every offset in -2..2 the damage
\* is at least 1 and lies in max(1, d - 2) .. d + 2 for d = max(1, attack -
\* defense); hence a hit lowers the victim's health by at least 1, down to
\* the clamp at 0 (an enemy's own heal aside).
C19_DamageAtLeastOne ==
  [][/\ last'.verb = "calculate_damage" =>
          LET d == Max(1, last'.target[1] - last'.target[2])
              damage == last'.effect
          IN  /\ last'.target[3] \in -2..2
              /\ damage >= 1
              /\ damage >= Max(1, d - 2)
              /\ damage <= d + 2
     /\ (last'.verb = "attack" /\ last'.result \in {"defeated", "countered"}) =>
          /\ last'.effect # "heal" =>
                enemies'[last'.item].health <= Max(0, enemies[last'.item].health - 1)
          /\ last'.result = "countered" =>
                player'.health <= Max(0, player.health - 1)]_vars

\* The formula was given an attack far below the defense and the lowest
\* offset, and answered 1.
C19_FlooredAtOne ==
  /\ last.verb = "calculate_damage"
  /\ last.target = <<-MaxStat, MaxStat, -2>>
  /\ last.effect = 1

C21_LearnIdempotent ==
  [][(last'.verb = "learn" /\ last'.target # <<>>) =>
       LET recipe_id == last'.target[1]
       IN  IF recipe_id \notin RecipeIds
             THEN last'.result = "recipe_not_found" /\ GameState' = GameState
           ELSE IF recipe_id \in player.known_recipes
             THEN last'.result = "already_known" /\ GameState' = GameState
           ELSE /\ last'.result = "learned"
                /\ player' = [player EXCEPT !.known_recipes = @ \cup {recipe_id}]
                /\ <<rooms, enemies, items, quests, is_game_over>>'
                     = <<rooms, enemies, items, quests, is_game_over>>]_vars

\* Leather armor, learned before, was learned a second time.
C21_LearnedTwice ==
  /\ last.verb = "learn" /\ last.result = "already_known" /\ last.item = "leather_armor"
  /\ player.known_recipes = {"torch", "health_potion", "leather_armor"}

\* The giver of quest q stands in the player's room.
GiverHere(q) ==
  /\ Quests[q].quest_giver \in NpcIds
  /\ WorldNpcs[Quests[q].quest_giver].current_room = player.current_room

\* C22: accept appends a quest id to active_quests only if the id is not
\* active already, is not completed unless the quest is repeatable, and the
\* quest giver stands in the player's room; the quest then is in progress.
\* Otherwise active_quests and every quest status stay as they were.
C22_AcceptGuards ==
  [][last'.verb = "accept" =>
       \/ GameState' = GameState
       \/ \E q \in QuestIds :
            /\ ~InList(q, player.active_quests)
            /\ q \in player.completed_quests => Quests[q].is_repeatable
            /\ GiverHere(q)
            /\ player' = [player EXCEPT !.active_quests = Append(@, q)]
            /\ quests' = [quests EXCEPT ![q] = "in_progress"]
            /\ <<rooms, enemies, items, is_game_over>>'
                 = <<rooms, enemies, items, is_game_over>>]_vars

\* The goblin hunt was accepted from the guard in the guard room.
C22_AcceptedFromGuard ==
  /\ last.verb = "accept" /\ last.result = "accepted" /\ last.item = "defeat_goblin"
  /\ player.current_room = "guard_room"
  /\ player.active_quests = <<"defeat_goblin">>
  /\ quests["defeat_goblin"] = "in_progress"

\* The quests that left active_quests in this step.
Completing == {q \in QuestIds : InList(q, player.active_quests) /\ ~InList(q, player'.active_quests)}

\* The sum of f over the quests of Q.
RECURSIVE SumOver(_, _)
SumOver(Q, f) ==
  IF Q = {} THEN 0
  ELSE LET q == CHOOSE x \in Q : TRUE IN f[q] + SumOver(Q \ {q}, f)

\* The number of copies of item_id the reward map of quest q promises.
Promised(q, item_id) ==
  LET hits == SelectSeq(Quests[q].rewards, LAMBDA r : r[1] = item_id)
  IN  IF hits = <<>> THEN 0 ELSE hits[1][2]

\* The ids that occur in some reward map.
RewardIds ==
  UNION {{Quests[q].rewards[k][1] : k \in 1..Len(Quests[q].rewards)} : q \in QuestIds}

\* C23: when quests complete, the same step removes them from active_quests,
\* adds them to completed_quests, raises experience and gold by the flat
\* rewards, and appends to the inventory count copies of every id of the
\* reward maps.
C23_CompletionRewards ==
  [][Completing # {} =>
       /\ Completing \subseteq player'.completed_quests
       /\ player'.experience
            = player.experience + SumOver(Completing, [q \in QuestIds |-> Quests[q].experience_reward])
       /\ player'.gold
            = player.gold + SumOver(Completing, [q \in QuestIds |-> Quests[q].gold_reward])
       /\ \A item_id \in RewardIds :
            Count(item_id, player'.inventory)
              = Count(item_id, player.inventory)
                  + SumOver(Completing, [q \in QuestIds |-> Promised(q, item_id)])]_vars

\* The number of inventory entries whose name contains the key.
NamedCount(key, inventory) ==
  Cardinality({k \in 1..Len(inventory) : NamedLike(key, inventory[k])})

\* The inventory-based requirements of quest q: (key, count) pairs.
Demands(q) ==
  {Quests[q].requirements[k] : k \in 1..Len(Quests[q].requirements)}
    \ {<<u_goblin_defeated, 1>>, <<u_cave_explored, 1>>}

\* The number of inventory entries the completion of quest q takes away, and
\* the number its reward map delivers from the catalog.
Demanded(q) == SumOver(Demands(q), [r \in Demands(q) |-> r[2]])

Delivered(q) ==
  SumOver({item_id \in RewardIds \cap items : Promised(q, item_id) > 0},
          [item_id \in RewardIds |-> Promised(q, item_id)])

\* C24: when quests complete, for each inventory-based requirement
\* (key, count) exactly count inventory entries whose name contains the key
\* are removed, also when several quests complete in one pass; the
\* goblin_defeated and cave_explored requirements remove nothing; no enemy
\* and no room changes.
C24_CompletionConsumes ==
  [][Completing # {} =>
       /\ \A q \in Completing : \A r \in Demands(q) :
            NamedCount(r[1], player'.inventory) = NamedCount(r[1], player.inventory) - r[2]
       /\ Len(player'.inventory)
            = Len(player.inventory)
                + SumOver(Completing, [q \in QuestIds |-> Delivered(q)])
                - SumOver(Completing, [q \in QuestIds |-> Demanded(q)])
       /\ enemies' = enemies
       /\ rooms' = rooms]_vars

\* The wizard's and the merchant's quests completed in one pass: the ruby and
\* five of the six herbs are gone, the torch and two coins are in the pack.
C24_TwoQuestsOnePass ==
  /\ player.completed_quests = {"find_gem", "collect_herbs"}
  /\ player.active_quests = <<>>
  /\ player.inventory = <<"torch", "herb", "gold_coin", "gold_coin">>

\* A step in which the interpreter answers a line (parse_and_execute, then
\* the engine's victory check).
CommandStep == pc = "input" /\ pc' = "check"

\* No quest is completed and no quest reward is granted in this step.
NoQuestCompleted ==
  /\ Completing = {}
  /\ player'.completed_quests = player.completed_quests
  /\ \A q \in QuestIds : quests'[q] = "completed" => quests[q] = "completed"

\* is_game_over is written by the engine's victory check alone: it rises
\* only over a treasure chest in the inventory the command left.
VictoryByEngine ==
  is_game_over' # is_game_over
    => is_game_over' /\ InList("treasure_chest", player'.inventory)

C26_UnknownAndEmpty ==
  [][/\ (CommandStep /\ last'.verb \notin Verbs)
         => last'.result = "dont_understand" /\ GameState' = GameState
     /\ (last' # last /\ last'.target = <<>> /\ last'.verb = "" /\ last' # NoCommand)
         => last'.result = "no_response" /\ GameState' = GameState /\ pc' = pc]_vars

\* "get herb" was not understood at the entrance as the first line of a
\* loaded game, five herbs and an accepted herb collection in the pack.
C26_GetNotUnderstood ==
  /\ pc = "check" /\ last.verb = "get" /\ last.result = "dont_understand"
  /\ player.current_room = "entrance"
  /\ NamedCount(s_herb, player.inventory) >= 5
  /\ InList("collect_herbs", player.active_quests)

\* C27: for every reachable GameState, saving it with the persistence layer
\* and loading the result succeeds and yields a GameState equal to the
\* original in all fields, the sets known_recipes and completed_quests and the
\* direction-keyed exit maps included.
C27_RoundTrip ==
  last.verb = "save_load" => (last.result = "loaded" /\ last.item = Snapshot)

\* C28: while the room the player stands in is a safe zone, attack deals no
\* damage to any enemy and none to the player, whatever enemies the room
\* lists.
C28_SafeZoneNoDamage ==
  [][(rooms[player.current_room].is_safe_zone /\ last'.verb = "attack") =>
       /\ enemies' = enemies
       /\ player'.health = player.health]_vars

\* The least index of a set of indices, 0 for the empty set.
Least(S) == IF S = {} THEN 0 ELSE CHOOSE k \in S : \A j \in S : k <= j

\* The places of the room's list whose item the target names exactly, and
\* those among them whose item is takeable and visible.
NamedPlaces(target) ==
  {k \in 1..Len(rooms[Here].items) :
     rooms[Here].items[k] \in items /\ ExactlyNamed(target, ItemOf(rooms[Here].items[k]))}

EligiblePlaces(target) ==
  {k \in NamedPlaces(target) :
     ItemOf(rooms[Here].items[k]).is_takeable /\ ItemOf(rooms[Here].items[k]).is_visible}

\* The step moved the item at place k of the room's list into the pack.
TookPlace(k) ==
  /\ last'.result = "taken" /\ last'.item = rooms[Here].items[k]
  /\ player'.inventory = Append(player.inventory, rooms[Here].items[k])
  /\ rooms'[Here].items = Remove(rooms[Here].items, rooms[Here].items[k])

\* C29 (as stated): take considers only the items that are visible and
\* takeable: when some matching item of the room is eligible, the first
\* eligible match in room-list order is moved, also if a matching item that
\* is not takeable or not visible stands before it.
C29_TakeEligibleOnly ==
  [][(last'.verb = "take" /\ last'.target # <<>> /\ EligiblePlaces(last'.target) # {})
       => TookPlace(Least(EligiblePlaces(last'.target)))]_vars

\* C29 (amended): take considers the first item in room-list order that the
\* target names, whatever its flags: if that item is not takeable, or else
\* not visible, the command is refused and nothing moves, also if a later
\* item matches and is eligible; otherwise that first match is moved.
C29_TakeFirstMatch ==
  [][(last'.verb = "take" /\ last'.target # <<>>) =>
       LET k == Least(NamedPlaces(last'.target))
       IN  IF k = 0 THEN last'.result = "not_here" /\ GameState' = GameState
           ELSE IF ~ItemOf(rooms[Here].items[k]).is_takeable
             THEN /\ last'.result = "cant_take" /\ last'.item = rooms[Here].items[k]
                  /\ GameState' = GameState
           ELSE IF ~ItemOf(rooms[Here].items[k]).is_visible
             THEN /\ last'.result = "not_visible" /\ last'.item = rooms[Here].items[k]
                  /\ GameState' = GameState
           ELSE TookPlace(k)]_vars

\* "take torch" was refused over the sconce while the torch lay behind it.
C29_SconceBeforeTorch ==
  /\ last.verb = "take" /\ last.target = s_torch
  /\ last.result = "cant_take" /\ last.item = "sconce"
  /\ rooms["entrance"].items[1] = "sconce" /\ rooms["entrance"].items[2] = "torch"

\* The places of the room's enemy list that hold an alive enemy, and those
\* among them whose enemy's name contains the target text.
AlivePlaces == {k \in 1..Len(rooms[Here].enemies) : enemies[rooms[Here].enemies[k]].is_alive}

NamedAlivePlaces(target) ==
  {k \in AlivePlaces :
     IsSubstring(Lower(target), Lower(WorldEnemies[rooms[Here].enemies[k]].name))}

\* C30: attack damages the first alive enemy in room-list order whose name
\* contains the target text, and the first alive enemy of the list if none
\* matches or no target is given; dead enemies and the enemies of other
\* rooms are never damaged; with no alive enemy in the room nothing changes.
C30_AttackSelection ==
  [][last'.verb = "attack" =>
       LET k == IF NamedAlivePlaces(last'.target) # {}
                  THEN Least(NamedAlivePlaces(last'.target)) ELSE Least(AlivePlaces)
       IN  IF k = 0 THEN last'.result = "no_enemies" /\ GameState' = GameState
           ELSE /\ last'.item = rooms[Here].enemies[k]
                /\ enemies'[rooms[Here].enemies[k]].health < enemies[rooms[Here].enemies[k]].health
                /\ \A e \in EnemyIds \ {rooms[Here].enemies[k]} : enemies'[e] = enemies[e]]_vars

\* "attack skeleton" struck the skeleton, second in the list, and left the
\* alive goblin before it as it was.
C30_SecondInListStruck ==
  /\ last.verb = "attack" /\ last.target = s_skeleton /\ last.item = "skeleton"
  /\ rooms[Here].enemies = <<"goblin", "skeleton">>
  /\ enemies["goblin"] = [health |-> 2, is_alive |-> TRUE]
  /\ enemies["skeleton"].health < 2

\* C31: is_visited is monotone.  No step resets a room's flag; a flag that
\* becomes true does so in the move that brings the player into that room,
\* or at the start of the session for the room the player stands in; a
\* successful move leaves the room it arrives in visited; the long
\* description is printed only by a display that flips the flag, and an
\* arrival in a visited room prints the short description.
C31_VisitedMonotone ==
  [][ /\ \A r \in DOMAIN rooms : rooms[r].is_visited => rooms'[r].is_visited
      /\ \A r \in DOMAIN rooms :
            (~rooms[r].is_visited /\ rooms'[r].is_visited) =>
              \/ /\ last'.verb \in Directions /\ last'.result = "moved"
                 /\ player.current_room # r /\ player'.current_room = r
              \/ pc = "start" /\ player.current_room = r
      /\ (CommandStep /\ last'.verb \in Directions /\ last'.result = "moved") =>
            /\ rooms'[player'.current_room].is_visited
            /\ rooms[player'.current_room].is_visited =>
                  last'.effect = "description"
      /\ pc = "start" => rooms'[player.current_room].is_visited
      /\ last'.effect = "long_description" =>
            /\ ~rooms[player'.current_room].is_visited
            /\ rooms'[player'.current_room].is_visited
    ]_vars

\* The player has walked back into the start room, which the start of the
\* session had shown, and read its short description.
C31_BackAtEntrance ==
  /\ last.verb = "south" /\ last.result = "moved"
  /\ player.current_room = "entrance"
  /\ last.effect = "description"
  /\ rooms["guard_room"].is_visited

\* C32: the order of a session.  A line handed to the interpreter is handed
\* over while the player is alive and the game is not over, is none of the
\* quit words, and has the victory check run in the same step (unless the
\* interpreter raised); the step after it is the quest re-evaluation, which
\* returns to the prompt; with the player dead or the game over nothing more
\* happens at the prompt; a quit word ends the session with the state as it
\* was, and nothing follows it.
C32_SessionOrder ==
  [][ /\ CommandStep =>
            /\ player.is_alive /\ ~is_game_over
            /\ last'.verb \notin QuitWords
            /\ last'.result # "error" =>
                  is_game_over' = InList("treasure_chest", player'.inventory)
      /\ pc = "check" =>
            /\ pc' = "input"
            /\ quests' = CheckQuestProgress(
                            [player |-> player,
                             quests |-> [q \in QuestIds |-> "not_started"]]).quests
            /\ UNCHANGED <<rooms, enemies, items, is_game_over>>
      /\ (pc = "input" /\ (~player.is_alive \/ is_game_over)) => FALSE
      /\ (pc = "input" /\ last'.verb \in QuitWords) =>
            /\ pc' = "done"
            /\ UNCHANGED <<player, rooms, enemies, items, quests, is_game_over>>
      /\ pc = "done" => FALSE
      /\ pc' = "done" => last'.verb \in QuitWords
    ]_vars

\* The wounded player fell to the goblin; the quest re-evaluation ran after
\* the fatal line and the loop is back at its head.
C32_FallenAtPrompt ==
  /\ pc = "input" /\ ~player.is_alive
  /\ player.current_room = "corridor"

\* The occurrences of id in the room lists, the inventory and the slots.
Occurrences(id, p, rs) ==
  SumOver(RoomIds, [r \in RoomIds |-> Count(id, rs[r].items)])
    + Count(id, p.inventory)
    + Cardinality({k \in 1..Len(EquipmentSlots) : p.equipment[EquipmentSlots[k]] = id})

\* The four commands that move items between room, inventory and slots.
Carrying == CommandStep /\ last'.verb \in {"take", "drop", "equip", "unequip"}

\* Two lists hold the same ids the same number of times.
SameBag(a, b) == \A id \in items : Count(id, a) = Count(id, b)

\* C33 as stated: take, drop, equip and unequip keep the occurrences of each
\* id, and after an equip the unequip of its slot gives back the inventory
\* as it was before the equip.
C33_EquipUnequipRestores ==
  [][ Carrying =>
        /\ \A id \in items : Occurrences(id, player', rooms') = Occurrences(id, player, rooms)
        /\ last'.result = "equipped" =>
              SameBag(Unequipped(player', SlotOf(last'.item)).inventory, player.inventory)
    ]_vars

\* C33 amended: take, drop, equip and unequip keep the occurrences of each
\* id over the room lists, the inventory and the slots; an equip into an
\* occupied slot returns the displaced id to the inventory; after an equip
\* the unequip of its slot gives back the inventory as it was before the
\* equip when the slot was empty then, and that inventory with the displaced
\* id added when it was occupied.
C33_ItemConservation ==
  [][ Carrying =>
        /\ \A id \in items : Occurrences(id, player', rooms') = Occurrences(id, player, rooms)
        /\ last'.result = "equipped" =>
              LET slot == SlotOf(last'.item)
                  displaced == player.equipment[slot]
                  back == Unequipped(player', slot).inventory
              IN  /\ displaced # None =>
                        /\ InList(displaced, player'.inventory)
                        /\ SameBag(back, Append(player.inventory, displaced))
                  /\ displaced = None => SameBag(back, player.inventory)
        /\ last'.result = "unequipped" =>
              player' = Unequipped(player, last'.target[1])
    ]_vars

\* The iron sword was equipped over the sword in the weapon slot, which
\* went back to the end of the inventory.
C33_SwordDisplaced ==
  /\ last.verb = "equip" /\ last.result = "equipped" /\ last.item = "iron_sword"
  /\ player.equipment.weapon = "iron_sword"
  /\ player.inventory = <<"leather_armor", "sword">>

\* The slots other than the weapon slot.
NonWeaponSlots == {"armor", "helmet", "boots", "gloves", "ring", "amulet"}

\* C34: the helmet, boots, gloves, ring and amulet slots are empty, the
\* weapon slot is empty or holds a weapon, the armor slot is empty or holds
\* an armor, and the defense _get_player_armor computes is the sum of the
\* armor values of the items in all slots but the weapon slot.
C34_SlotsByType ==
  /\ \A slot \in {"helmet", "boots", "gloves", "ring", "amulet"} :
        player.equipment[slot] = None
  /\ player.equipment.weapon # None => ItemOf(player.equipment.weapon).item_type = "weapon"
  /\ player.equipment.armor # None => ItemOf(player.equipment.armor).item_type = "armor"
  /\ GetPlayerArmor(player)
       = SumOver(NonWeaponSlots, [slot \in NonWeaponSlots |-> SlotArmor(player, slot)])

\* The leather armor and the iron sword are worn, and the armor counts.
C34_ArmedAndArmoured ==
  /\ player.equipment.armor = "leather_armor"
  /\ player.equipment.weapon = "iron_sword"
  /\ GetPlayerArmor(player) > 0

\* What the merchant of the market asks for id: the price of the shop's
\* list when it has one, else the value of the item.
Asked(id) ==
  LET shop_prices == WorldNpcs["merchant"].shop_prices
  IN  IF id \in DOMAIN shop_prices THEN shop_prices[id] ELSE WorldItems[id].value

\* C35: gold is never negative.  A buy succeeds only with gold >= price and
\* lowers gold by exactly the price, adding the id to the inventory; a buy
\* with less gold is refused; a sell raises gold by exactly value // 2 and
\* removes one occurrence of the sold id from the inventory.
C35_GoldNeverNegative ==
  [][ /\ player.gold >= 0 /\ player'.gold >= 0
      /\ (CommandStep /\ last'.verb = "buy" /\ last'.item # None) =>
            IF player.gold >= Asked(last'.item)
            THEN /\ last'.result = "bought"
                 /\ player'.gold = player.gold - Asked(last'.item)
                 /\ player'.inventory = Append(player.inventory, last'.item)
            ELSE /\ last'.result = "not_enough_gold"
                 /\ GameState' = GameState
      /\ (CommandStep /\ last'.verb = "sell" /\ last'.result = "sold") =>
            /\ player'.gold = player.gold + WorldItems[last'.item].value \div 2
            /\ Count(last'.item, player'.inventory)
                 = Count(last'.item, player.inventory) - 1
            /\ Len(player'.inventory) = Len(player.inventory) - 1
    ]_vars

\* A torch was bought with the gold of earlier sales, and gold is left over.
C35_TorchBought ==
  /\ last.verb = "buy" /\ last.result = "bought" /\ last.item = "torch"
  /\ player.gold > 0
  /\ Held("torch")

\* C36: the player's current room is a key of GameState.rooms, and so is the
\* destination of every exit of every room.
C36_CurrentRoomExists ==
  /\ player.current_room \in DOMAIN rooms
  /\ \A r \in DOMAIN rooms : \A d \in DOMAIN rooms[r].exits :
        rooms[r].exits[d].destination \in DOMAIN rooms

\* The player has climbed down into the deep cavern, six moves from the
\* entrance.
C36_InDeepCavern ==
  /\ last.verb = "down" /\ last.result = "moved"
  /\ player.current_room = "deep_cavern"
  /\ player.moves >= 6

\* An enemy of the player's room is alive, and so is the player.
Fighting == player.is_alive /\ FirstAliveEnemy # None

\* The room has no alive enemy, or the player is dead.
Settled == ~player.is_alive \/ FirstAliveEnemy = None

\* C37: combat terminates.  An attack that does not kill its target lowers
\* the player's health by at least 1; the player's health rises only in an
\* attack that kills and brings a level-up; and a fight of repeated attacks
\* leads to a room without an alive enemy or to a dead player.
C37_CombatTerminates ==
  /\ [][ /\ (CommandStep /\ last'.verb = "attack" /\ last'.result = "countered") =>
              player'.health <= player.health - 1
         /\ player'.health > player.health =>
              /\ last'.verb = "attack" /\ last'.result = "defeated"
              /\ player'.level = player.level + 1
       ]_vars
  /\ (Fighting ~> Settled)

\* The bandit healed itself in the last exchange and the fight goes on.
C37_BanditHealed ==
  /\ last.verb = "attack" /\ last.result = "countered" /\ last.effect = "heal"
  /\ Fighting
  /\ player.health < 20

\* C38: a quest that is not repeatable is completed at most once: it leaves
\* active_quests only while it is not yet in completed_quests, and once
\* completed it is never active again, so its experience and gold come once;
\* the experience and gold of a step that completes quests are the rewards
\* of those quests, each once; active_quests never holds an id twice; a
\* quest that is not repeatable is never active and completed at once.
C38_CompletedOnce ==
  [][ /\ \A q \in QuestIds :
            /\ Count(q, player.active_quests) <= 1
            /\ Count(q, player'.active_quests) <= 1
            /\ ~Quests[q].is_repeatable =>
                  /\ ~(InList(q, player'.active_quests) /\ q \in player'.completed_quests)
                  /\ q \in Completing => q \notin player.completed_quests
                  /\ q \in player.completed_quests => ~InList(q, player'.active_quests)
      /\ Completing \subseteq player'.completed_quests
      /\ pc = "check" =>
            /\ player'.experience
                 = player.experience
                     + SumOver(Completing, [q \in QuestIds |-> Quests[q].experience_reward])
            /\ player'.gold
                 = player.gold + SumOver(Completing, [q \in QuestIds |-> Quests[q].gold_reward])
    ]_vars

\* The wizard was asked for the lost ruby quest again after it was completed.
C38_RefusedSecondTime ==
  /\ last.verb = "accept" /\ last.result = "already_completed" /\ last.item = "find_gem"
  /\ "find_gem" \in player.completed_quests
  /\ player.gold = Quests["find_gem"].gold_reward

\* C39: victory.  While is_game_over is false the treasure chest is not in
\* the inventory; a command that leaves the chest in the inventory sets
\* is_game_over in the same step, and nothing else sets it; it is never
\* reset; and with the game over no further command is processed.
C39_Victory ==
  [][ /\ ~is_game_over => ~InList("treasure_chest", player.inventory)
      /\ (CommandStep /\ InList("treasure_chest", player'.inventory)) => is_game_over'
      /\ (~is_game_over /\ is_game_over') =>
            CommandStep /\ InList("treasure_chest", player'.inventory)
      /\ is_game_over => is_game_over'
      /\ is_game_over => ~CommandStep /\ pc' # "done"
    ]_vars

\* The chest was taken, the quest check ran after it, and the loop is at its
\* head with the game over.
C39_ChestTaken ==
  /\ is_game_over /\ pc = "input"
  /\ InList("treasure_chest", player.inventory)
  /\ player.current_room = "treasure_room"

\* The verbs C40 lists, with the shortcut of look.
Informational == InformVerbs \cup {"examine"}

\* C40: the informational commands (help, look, examine, inventory, status,
\* score, stats, gold, level, equipment, recipes, recipe, quest, quests,
\* shop, combat, talk, history, save, load) leave the whole GameState as it
\* was, whatever their argument.
C40_InformationalFrame ==
  [][(CommandStep /\ last'.verb \in Informational) => GameState' = GameState]_vars

\* load was typed in the market by a player who has walked, holds the herb
\* and has a quest running.
C40_LoadIsAStub ==
  /\ last.verb = "load" /\ last.result = "message_only"
  /\ player.current_room = "market"
  /\ Held("herb")
  /\ player.active_quests = <<"collect_herbs">>
====
